---- MODULE Spec2Model ----
(***************************************************************************)
(* hlbot real-time event synchronisation engine.                           *)
(*                                                                         *)
(*   EventQueue      (src/src/queue.ts)    the bounded sequence log        *)
(*   RealtimeTracker (src/src/realtime.ts) snapshots, priming, subscriptions *)
(*   distributor     (src/src/server.ts)   consumers, broadcast, heartbeat *)
(*                                                                         *)
(* Specifications:                                                         *)
(*   Spec      the EventQueue alone, driven through its public methods     *)
(*   SpecPage  the EventQueue with a capacity above the page-size cap      *)
(*   SpecPrime RealtimeTracker.primeFromHttp / performPrime on a queue     *)
(*   SpecSubs  RealtimeTracker.refresh / subscribeAddress with priming     *)
(*   SpecStop  RealtimeTracker.refresh / subscribeAddress / stop           *)
(*   SpecWs    the WebSocket distributor of src/src/server.ts              *)
(*   SpecWsPage  the distributor with one consumer and a long log          *)
(*   SpecWipe  the distributor while POST /api/clear-all-trades runs       *)
(*   SpecFanout  the distributor's tick interval with up to 27 consumers   *)
(*   SpecFill  RealtimeTracker.onUserEvents on single-fill batches         *)
(*   SpecMerge mergeTrades on lists of at most two rows                    *)
(*   SpecRate  canLoadMore while time passes                               *)
(*   SpecSweep RealtimeTracker.ensureFreshSnapshots with priming           *)
(*   SpecPush  RealtimeTracker.onClearinghouse and its storage writes      *)
(*   SpecPersist  onClearinghouse and onUserEvents with failing storage    *)
(*   SpecBatch onUserEvents on batches of several fills, two at a time     *)
(*   SpecFillPrime  onUserEvents and the priming it triggers               *)
(*   SpecOverlap  overlapping invocations of RealtimeTracker.refresh       *)
(*   SpecStream  the distributor on a log that evicts                      *)
(*   SpecRace  onClearinghouse against a priming pull in flight            *)
(***************************************************************************)
EXTENDS Integers, Sequences, FiniteSets, TLC

VARIABLES
    configured, \* the capacity argument the EventQueue was constructed with
    capacity,   \* EventQueue.capacity
    buffer,     \* EventQueue.buffer
    nextSeq,    \* EventQueue.nextSeq
    call,       \* the method of the queue invoked last, with its arguments
    ret,        \* what that invocation returned
    hist,       \* history: the events returned by push since construction or the last reset
    resets,     \* history: number of reset() calls so far
    repeat,     \* history: the last call repeated the call before it (same method, same arguments)
    snapshots,  \* RealtimeTracker.snapshots: address -> {data, updatedAt}
    primeInflight, \* RealtimeTracker.primeInflight: address -> the pending priming task
    lastPrimeAt,   \* RealtimeTracker.lastPrimeAt: address -> time of the last attempt
    tasks,      \* the promises made by primeFromHttp (performPrime(addr).finally(...)), by number
    now,        \* Date.now()
    primeCall,  \* the last invocation of primeFromHttp: its number and arguments
    primeRet,   \* the promise that invocation returned
    done,       \* history: address -> when its last pull succeeded and when its last pull failed
    writes,     \* number of persistence calls issued (insertEvent, upsertCurrentPosition)
    subs,       \* RealtimeTracker.subs: address -> {ch, ue, ueTransport}
    listed,     \* the addresses getAddresses() resolves to (as stored, any letter case)
    handles,    \* upstream subscriptions and transports created so far, by number: their state
    refreshes,  \* the invocations of refresh(), by number: where each one stands
    stopRun,    \* the invocation of stop(): where it stands
    clients,    \* server.ts clients: the connected consumers {ws, lastSeq, alive}, oldest first
    wsObs,      \* history: per consumer, what it was told and sent
    broadcastInterval, \* server.ts broadcastInterval
    timer,      \* a setTimeout(runBroadcast, ...) is pending
    wsCall,     \* the handler of the distributor that ran last, with its input
    wipe,       \* the invocation of POST /api/clear-all-trades: where it stands
    ueRuns,     \* the invocations of onUserEvents, by number: where each one stands
    merge,      \* mergeTrades: its two arguments, what it returned for them, and what it
                \* returned when called again on that result
    rate,       \* canLoadMore: the RateState, and what the last call returned
    sweeps,     \* the invocations of ensureFreshSnapshots, by number: where each one stands
    db,         \* the calls of insertEvent and upsertCurrentPosition that onClearinghouse
                \* issued without awaiting them, by number: pending, done or failed
    upstream    \* the exchange: per address the positions it has had, and history: the
                \* position each pull was answered with, the last one notified by push

queueVars == <<configured, capacity, buffer, nextSeq>>
queueObs == <<call, ret, resets, repeat>>
subVars == <<subs, listed, handles, refreshes, stopRun>>
trackerVars == <<snapshots, primeInflight, lastPrimeAt, tasks, now, primeCall, primeRet, done,
                 writes, subVars>>
wsVars == <<clients, wsObs, broadcastInterval, timer, wsCall>>
vars == <<configured, capacity, buffer, nextSeq, call, ret, hist, resets, repeat,
          snapshots, primeInflight, lastPrimeAt, tasks, now, primeCall, primeRet, done, writes,
          subs, listed, handles, refreshes, stopRun,
          clients, wsObs, broadcastInterval, timer, wsCall, wipe, ueRuns, merge, rate,
          sweeps, db, upstream>>
\* the state of the handlers and helpers modelled after the queue, tracker and distributor
feedVars == <<db, upstream>>
restVars == <<wipe, ueRuns, merge, rate, sweeps, feedVars>>

----------------------------------------------------------------------------
(* Bounds of the model *)

\* appends per sequencing epoch in Spec (the scenario of the tests needs 150)
MaxSeq == 152
\* reset() calls in Spec
MaxResets == 1
\* appends in SpecPage (one more than needed to evict with capacity 1001)
MaxSeqPage == 1003

----------------------------------------------------------------------------
(* Program constants *)

\* Math.max(100, capacity)
MinCapacity == 100
\* Math.min(1000, limit)
MaxPageSize == 1000
\* Math.max(1, ...)
MinPageSize == 1
\* listSince(sinceSeq, limit = 200)
DefaultLimit == 200

Max(a, b) == IF a > b THEN a ELSE b
Min(a, b) == IF a < b THEN a ELSE b

----------------------------------------------------------------------------
(* EventQueue: pure parts *)

\* constructor: this.capacity = Math.max(100, capacity)
NoFloorCapacity(c) == c
EffectiveCapacity(c) == Max(MinCapacity, c)

\* { ...evt, seq: n }
WithSeq(evt, n) == [k \in (DOMAIN evt) \cup {"seq"} |-> IF k = "seq" THEN n ELSE evt[k]]

\* if (buffer.length > capacity) buffer.splice(0, buffer.length - capacity)
TrimBack(buf, cap) == IF Len(buf) > cap THEN SubSeq(buf, 1, cap) ELSE buf
Trim(buf, cap) == IF Len(buf) > cap THEN SubSeq(buf, Len(buf) - cap + 1, Len(buf)) ELSE buf

\* buffer.findIndex((e) => e.seq > sinceSeq), 1-based; 0 when there is none (-1 in the code)
FindIndex(buf, sinceSeq) ==
    IF \E i \in 1..Len(buf) : buf[i].seq > sinceSeq
    THEN CHOOSE i \in 1..Len(buf) :
            /\ buf[i].seq > sinceSeq
            /\ \A j \in 1..(i - 1) : ~(buf[j].seq > sinceSeq)
    ELSE 0

\* Math.max(1, Math.min(1000, limit))
PageNoFloor(limit) == Min(MaxPageSize, limit)
PageNoCap(limit) == Max(MinPageSize, limit)
PageSize(limit) == Max(MinPageSize, Min(MaxPageSize, limit))

\* buffer.slice(startIdx, startIdx + n)
Slice(buf, startIdx, n) == SubSeq(buf, startIdx, Min(Len(buf), startIdx + n - 1))

\* listSince(sinceSeq, limit)
listSince(buf, sinceSeq, limit) ==
    LET startIdx == FindIndex(buf, sinceSeq)
    IN  IF startIdx = 0 THEN <<>> ELSE Slice(buf, startIdx, PageSize(limit))

\* latestSeq()
latestSeq(next) == next - 1

\* push(evt): the buffer and counter after it, and the event it returns
PushSkipsSeq(buf, cap, next, evt) ==
    [buffer |-> Trim(Append(buf, WithSeq(evt, next + 1)), cap),
     nextSeq |-> next + 2,
     withSeq |-> WithSeq(evt, next + 1)]
push(buf, cap, next, evt) ==
    [buffer |-> Trim(Append(buf, WithSeq(evt, next)), cap),
     nextSeq |-> next + 1,
     withSeq |-> WithSeq(evt, next)]

\* reset(): the buffer and counter after it
resetKeepsSeq(buf, next) == [buffer |-> <<>>, nextSeq |-> next]
resetKeepsBuffer(buf, next) == [buffer |-> buf, nextSeq |-> 1]
reset(buf, next) == [buffer |-> <<>>, nextSeq |-> 1]

----------------------------------------------------------------------------
(* EventQueue: the methods as actions *)

\* capacity arguments of the constructor: below the floor (the test's 50) and above it
Capacities == {50, 120}
\* the event pushed by the tests of the queue; the queue never reads the payload
TestEvents == {[type |-> "trade", address |-> "0xabc", side |-> "buy", size |-> 1]}
\* arguments of listSince
Sinces == {0, 60}
Limits == {0, 10, DefaultLimit}

\* a call record: method, arguments, and latestSeq() as it was before the call
Called(op, since, limit) ==
    [op |-> op, since |-> since, limit |-> limit, before |-> latestSeq(nextSeq)]
SameCall(c, d) == c.op = d.op /\ c.since = d.since /\ c.limit = d.limit
Returned(events, value) == [events |-> events, value |-> value]

\* new EventQueue(c)
Construct(c) ==
    /\ configured = c
    /\ capacity = EffectiveCapacity(c)
    /\ buffer = <<>>
    /\ nextSeq = 1
    /\ call = [op |-> "new", since |-> 0, limit |-> 0, before |-> 0]
    /\ ret = Returned(<<>>, 0)
    /\ hist = <<>>
    /\ resets = 0
    /\ repeat = FALSE

\* push(evt)
Push(evt) ==
    LET after == push(buffer, capacity, nextSeq, evt)
    IN  /\ nextSeq' = after.nextSeq
        /\ buffer' = after.buffer
        /\ call' = Called("push", 0, 0)
        /\ ret' = Returned(<<after.withSeq>>, after.withSeq.seq)
        /\ hist' = Append(hist, after.withSeq)
        /\ repeat' = SameCall(call, call')
        /\ UNCHANGED <<configured, capacity, resets, trackerVars, wsVars, restVars>>

\* listSince(sinceSeq, limit)
ListSinceSplices(sinceSeq, limit) ==
    LET events == listSince(buffer, sinceSeq, limit)
        startIdx == FindIndex(buffer, sinceSeq)
    IN  /\ call' = Called("listSince", sinceSeq, limit)
        /\ ret' = Returned(events, Len(events))
        /\ repeat' = SameCall(call, call')
        /\ buffer' = IF startIdx = 0 THEN buffer
                     ELSE SubSeq(buffer, 1, startIdx - 1)
                          \o SubSeq(buffer, startIdx + Len(events), Len(buffer))
        /\ UNCHANGED <<configured, capacity, nextSeq, hist, resets, trackerVars, wsVars,
                       restVars>>
ListSince(sinceSeq, limit) ==
    LET events == listSince(buffer, sinceSeq, limit)
    IN  /\ call' = Called("listSince", sinceSeq, limit)
        /\ ret' = Returned(events, Len(events))
        /\ repeat' = SameCall(call, call')
        /\ UNCHANGED <<configured, capacity, buffer, nextSeq, hist, resets, trackerVars, wsVars,
                       restVars>>

\* latestSeq()
LatestSeq ==
    /\ call' = Called("latestSeq", 0, 0)
    /\ ret' = Returned(<<>>, latestSeq(nextSeq))
    /\ repeat' = SameCall(call, call')
    /\ UNCHANGED <<configured, capacity, buffer, nextSeq, hist, resets, trackerVars, wsVars,
                   restVars>>

\* reset(): what it assigns
ResetCall ==
    LET after == reset(buffer, nextSeq)
    IN  /\ buffer' = after.buffer
        /\ nextSeq' = after.nextSeq
        /\ call' = Called("reset", 0, 0)
        /\ ret' = Returned(<<>>, 0)
        /\ hist' = <<>>
        /\ resets' = resets + 1
        /\ repeat' = SameCall(call, call')
        /\ UNCHANGED <<configured, capacity>>
Reset == ResetCall /\ UNCHANGED <<trackerVars, wsVars, restVars>>

----------------------------------------------------------------------------
(* RealtimeTracker: state *)

\* a Map as a function on the set of its keys
EmptyMap == <<>>
Has(m, k) == k \in DOMAIN m
Put(m, k, v) == [x \in (DOMAIN m) \cup {k} |-> IF x = k THEN v ELSE m[x]]
Delete(m, k) == [x \in (DOMAIN m) \ {k} |-> m[x]]

\* the time at which the model starts; Date.now() is far above every interval
StartNow == 100000
\* milliseconds that pass in one step of the clock, and the number of such steps
TickMs == 1000
MaxTicks == 2
\* invocations of primeFromHttp
MaxCalls == 3

\* the server before its distributor is set up
NoDistributor ==
    /\ clients = <<>>
    /\ wsObs = <<>>
    /\ broadcastInterval = 1000
    /\ timer = FALSE
    /\ wsCall = [op |-> "none", id |-> 0, msg |-> <<>>, frames |-> <<>>, thrown |-> 0]

\* no request or notification is being handled
Quiet ==
    /\ wipe = [pc |-> "idle", n |-> 0, cursors |-> <<>>]
    /\ ueRuns = <<>>
    /\ sweeps = <<>>
    /\ db = <<>>
    /\ upstream = [was |-> <<>>, answers |-> <<>>, notified |-> <<>>]
\* mergeTrades not called yet, on the arguments given
NotMerged(existing, incoming) ==
    [existing |-> existing, incoming |-> incoming, calls |-> 0, result |-> <<>>,
     again |-> <<>>]
\* a RateState and the interval it is used with, canLoadMore not called yet; history:
\* the number of calls, the time and result of the last one, the times of those that
\* returned true
NewRate(lastAt, interval) ==
    [lastAt |-> lastAt, interval |-> interval, calls |-> 0, ret |-> FALSE, at |-> 0,
     trues |-> <<>>]
\* nothing but the server runs
Idle ==
    /\ Quiet
    /\ merge = NotMerged(<<>>, <<>>)
    /\ rate = NewRate(0, 0)

\* new RealtimeTracker(getAddresses, queue)
NewTracker ==
    /\ snapshots = EmptyMap
    /\ primeInflight = EmptyMap
    /\ lastPrimeAt = EmptyMap
    /\ tasks = <<>>
    /\ now = StartNow
    /\ primeCall = [n |-> 0, addr |-> "", force |-> TRUE, minIntervalMs |-> 0]
    /\ primeRet = [kind |-> "none", task |-> 0]
    /\ done = EmptyMap
    /\ writes = 0
    /\ subs = EmptyMap
    /\ listed = {}
    /\ handles = <<>>
    /\ refreshes = <<>>
    /\ stopRun = [pc |-> "idle", addr |-> "", s |-> [ch |-> 0, ue |-> 0, ueTransport |-> 0],
                  visited |-> {}, before |-> EmptyMap, called |-> {}, threw |-> FALSE,
                  hung |-> FALSE]

----------------------------------------------------------------------------
(* RealtimeTracker: priming (primeFromHttp, performPrime) *)

\* numbers that can be NaN (raw fields) or null (parsed fields)
NaN == [nan |-> TRUE]
Null == [null |-> TRUE]
Num(v) == [num |-> v]
\* Number.isFinite
IsFinite(x) == x # NaN

\* sideFromSize(size)
sideFromSize(size) == IF size > 0 THEN "long" ELSE IF size < 0 THEN "short" ELSE "flat"

\* the PositionSnapshot parsed from the BTC position of a clearinghouse state
ParseSnapshot(raw) ==
    [size |-> IF IsFinite(raw.szi) THEN raw.szi.num ELSE 0,
     entryPriceUsd |-> IF IsFinite(raw.entryPx) THEN raw.entryPx ELSE Null,
     liquidationPriceUsd |-> IF IsFinite(raw.liquidationPx) THEN raw.liquidationPx ELSE Null,
     leverage |-> IF IsFinite(raw.leverage) THEN raw.leverage ELSE Null]

\* snapshot.size * (mark - snapshot.entryPriceUsd), or null
Pnl(snapshot, mark) ==
    IF snapshot.entryPriceUsd # Null /\ mark # Null
    THEN Num(snapshot.size * (mark.num - snapshot.entryPriceUsd.num))
    ELSE Null

\* the position event pushed for a snapshot
PositionEvent(addr, snapshot, at, mark) ==
    [type |-> "position", at |-> at, address |-> addr, symbol |-> "BTC",
     size |-> snapshot.size, side |-> sideFromSize(snapshot.size),
     entryPriceUsd |-> snapshot.entryPriceUsd,
     liquidationPriceUsd |-> snapshot.liquidationPriceUsd,
     leverage |-> snapshot.leverage, pnlUsd |-> Pnl(snapshot, mark)]

\* tracked addresses (lowercased)
Addrs == {"0xa", "0xb"}
\* BTC positions an upstream response can carry: none, a long, a long with an unusable size
RawPositions ==
    {[szi |-> Num(0), entryPx |-> NaN, liquidationPx |-> NaN, leverage |-> NaN],
     [szi |-> Num(2), entryPx |-> Num(100), liquidationPx |-> Num(90), leverage |-> Num(5)]}
\* getCurrentBtcPrice().price ?? null
MarkPrices == {Num(110)}
\* minIntervalMs of the callers: the default 0, and the 2000 of the fill handler
FillPrimeIntervalMs == 2000
MinIntervals == {0, FillPrimeIntervalMs}

\* const inflight = this.primeInflight.get(addr); if (inflight) return inflight
NeverCoalesced(inflight, addr) == FALSE
Coalesced(inflight, addr) == Has(inflight, addr)

\* this.lastPrimeAt.get(addr) ?? 0
LastPrime(lp, addr) == IF Has(lp, addr) THEN lp[addr] ELSE 0

\* !force && minIntervalMs > 0 && Date.now() - last < minIntervalMs
SuppressedAlsoForced(force, minIntervalMs, last, t) ==
    minIntervalMs > 0 /\ t - last < minIntervalMs
NeverSuppressed(force, minIntervalMs, last, t) == FALSE
Suppressed(force, minIntervalMs, last, t) ==
    ~force /\ minIntervalMs > 0 /\ t - last < minIntervalMs

\* the promise performPrime(addr).finally(...) while the pull is in flight
PendingTask(addr) == [addr |-> addr, pull |-> "pending", state |-> "pending"]

\* the part of the tracker primeFromHttp assigns to
PrimeState ==
    [tasks |-> tasks, primeInflight |-> primeInflight, primeCall |-> primeCall,
     primeRet |-> primeRet]
\* primeFromHttp(addr, {force, minIntervalMs}) up to its return: that part after the call
primeFromHttp(st, addr, force, minIntervalMs) ==
    LET called == [st EXCEPT !.primeCall = [n |-> st.primeCall.n + 1, addr |-> addr,
                                           force |-> force,
                                           minIntervalMs |-> minIntervalMs]]
    IN  IF Coalesced(st.primeInflight, addr)
        THEN [called EXCEPT !.primeRet = [kind |-> "task", task |-> st.primeInflight[addr]]]
        ELSE IF Suppressed(force, minIntervalMs, LastPrime(lastPrimeAt, addr), now)
        THEN [called EXCEPT !.primeRet = [kind |-> "resolved", task |-> 0]]
        ELSE [called EXCEPT !.tasks = Append(st.tasks, PendingTask(addr)),
                            !.primeInflight = Put(st.primeInflight, addr, Len(st.tasks) + 1),
                            !.primeRet = [kind |-> "task", task |-> Len(st.tasks) + 1]]
\* the tracker takes that state
PrimeStateBecomes(st) ==
    /\ tasks' = st.tasks
    /\ primeInflight' = st.primeInflight
    /\ primeCall' = st.primeCall
    /\ primeRet' = st.primeRet
\* primeFromHttp(addr, {force, minIntervalMs}) up to its return: what it assigns
PrimeFromHttpCall(addr, force, minIntervalMs) ==
    PrimeStateBecomes(primeFromHttp(PrimeState, addr, force, minIntervalMs))

\* a call of primeFromHttp from outside the tracker
PrimeFromHttp(addr, force, minIntervalMs) ==
    /\ PrimeFromHttpCall(addr, force, minIntervalMs)
    /\ UNCHANGED <<queueVars, queueObs, hist, snapshots, lastPrimeAt, now, done, writes,
                   subVars, wsVars, restVars>>

\* .finally(() => { lastPrimeAt.set(addr, Date.now()); primeInflight.delete(addr) })
OnlyOnSuccess(lp, addr, t, ok) == IF ok THEN Put(lp, addr, t) ELSE lp
FinallyLastPrimeAt(lp, addr, t, ok) == Put(lp, addr, t)
FinallyInflight(inflight, addr) == Delete(inflight, addr)

\* how the promise of a task settles when the pull failed: performPrime catches everything
Rethrown == "rejected"
SettledAfterFailure == "fulfilled"

\* history: the time of the last successful and of the last failed pull of an address
Never == [never |-> TRUE]
DoneAt(addr) == IF Has(done, addr) THEN done[addr] ELSE [okAt |-> Never, failAt |-> Never]

\* performPrime after the pull returned data, then the finally callback
PullSucceeds(t, raw, mark) ==
    LET addr == tasks[t].addr
        snapshot == ParseSnapshot(raw)
        after == push(buffer, capacity, nextSeq, PositionEvent(addr, snapshot, now, mark))
    IN  /\ tasks[t].pull = "pending"
        /\ snapshots' = Put(snapshots, addr, [data |-> snapshot, updatedAt |-> now])
        /\ buffer' = after.buffer
        /\ nextSeq' = after.nextSeq
        /\ hist' = Append(hist, after.withSeq)
        /\ writes' = writes + 2
        /\ lastPrimeAt' = FinallyLastPrimeAt(lastPrimeAt, addr, now, TRUE)
        /\ primeInflight' = FinallyInflight(primeInflight, addr)
        /\ tasks' = [tasks EXCEPT ![t].pull = "ok", ![t].state = "fulfilled"]
        /\ done' = Put(done, addr, [DoneAt(addr) EXCEPT !.okAt = Num(now)])
        /\ UNCHANGED <<configured, capacity, queueObs, now, primeCall, primeRet, subVars,
                       wsVars, restVars>>

\* performPrime after the pull failed (rejected, timed out, unusable payload), then the
\* finally callback
PullFails(t) ==
    LET addr == tasks[t].addr
    IN  /\ tasks[t].pull = "pending"
        /\ lastPrimeAt' = FinallyLastPrimeAt(lastPrimeAt, addr, now, FALSE)
        /\ primeInflight' = FinallyInflight(primeInflight, addr)
        /\ tasks' = [tasks EXCEPT ![t].pull = "failed", ![t].state = SettledAfterFailure]
        /\ done' = Put(done, addr, [DoneAt(addr) EXCEPT !.failAt = Num(now)])
        /\ UNCHANGED <<queueVars, queueObs, hist, snapshots, now, primeCall, primeRet, writes,
                       subVars, wsVars, restVars>>

\* time passes
Tick ==
    /\ now' = now + TickMs
    /\ UNCHANGED <<queueVars, queueObs, hist, snapshots, primeInflight, lastPrimeAt, tasks,
                   primeCall, primeRet, done, writes, subVars, wsVars, restVars>>

----------------------------------------------------------------------------
(* SpecPrime: a tracker on the server's queue; priming calls, pull results, time *)

\* const changes = new EventQueue(5000)
ServerCapacity == 5000

InitPrime == Construct(ServerCapacity) /\ NewTracker /\ NoDistributor /\ Idle

PrimeCalled ==
    \E addr \in Addrs, force \in BOOLEAN, minIntervalMs \in MinIntervals :
        primeCall.n < MaxCalls /\ PrimeFromHttp(addr, force, minIntervalMs)
PrimePullSucceeds ==
    \E t \in DOMAIN tasks, raw \in RawPositions, mark \in MarkPrices : PullSucceeds(t, raw, mark)
PrimePullFails == \E t \in DOMAIN tasks : PullFails(t)
PrimeTick == now < StartNow + MaxTicks * TickMs /\ Tick

NextPrime == PrimeCalled \/ PrimePullSucceeds \/ PrimePullFails \/ PrimeTick

SpecPrime == InitPrime /\ [][NextPrime]_vars

----------------------------------------------------------------------------
(* Claims about priming, checked under SpecPrime *)

\* the step is an invocation of primeFromHttp
IsPrimeCall == primeCall'.n = primeCall.n + 1
\* the tasks of an address whose pull is in flight
Pulling(addr) == {t \in DOMAIN tasks : tasks[t].addr = addr /\ tasks[t].pull = "pending"}
\* the step issues a pull for the address of the call, and returns its task
IssuesPull ==
    /\ Len(tasks') = Len(tasks) + 1
    /\ tasks'[Len(tasks')] = PendingTask(primeCall'.addr)
    /\ \A t \in DOMAIN tasks : tasks'[t] = tasks[t]
    /\ primeRet' = [kind |-> "task", task |-> Len(tasks')]
\* the step leaves the tracker and the log as they are
TrackerUntouched ==
    /\ tasks' = tasks
    /\ buffer' = buffer
    /\ nextSeq' = nextSeq
    /\ snapshots' = snapshots
    /\ lastPrimeAt' = lastPrimeAt
    /\ primeInflight' = primeInflight
    /\ writes' = writes

C9_MinInterval ==
    /\ [][(/\ IsPrimeCall
            /\ ~primeCall'.force
            /\ primeCall'.minIntervalMs > 0
            /\ Pulling(primeCall'.addr) = {}
            /\ DoneAt(primeCall'.addr).okAt # Never
            /\ now - DoneAt(primeCall'.addr).okAt.num < primeCall'.minIntervalMs)
           => (TrackerUntouched /\ primeRet' = [kind |-> "resolved", task |-> 0])]_vars
    /\ [][(IsPrimeCall /\ primeCall'.force /\ Pulling(primeCall'.addr) = {})
           => IssuesPull]_vars
\* a rate-limited call returned at once, one clock step after a successful attempt
C9_Witness ==
    /\ primeRet.kind = "resolved"
    /\ ~primeCall.force
    /\ DoneAt(primeCall.addr).okAt # Never
    /\ DoneAt(primeCall.addr).failAt = Never
    /\ now > DoneAt(primeCall.addr).okAt.num
    /\ Has(snapshots, primeCall.addr)

\* C10: a failed pull is swallowed: the promise of the task is fulfilled, the snapshot
\* and the log are unchanged, the in-flight marker is cleared and the attempt time is
\* recorded as after a successful pull, so a rate-limited call within the minimum
\* interval after a failed attempt returns at once and changes nothing.
C10_FailureSwallowed ==
    /\ [][\A t \in DOMAIN tasks :
            (tasks[t].pull = "pending" /\ tasks'[t].pull = "failed") =>
                /\ tasks'[t].state = "fulfilled"
                /\ snapshots' = snapshots
                /\ buffer' = buffer
                /\ nextSeq' = nextSeq
                /\ writes' = writes
                /\ ~Has(primeInflight', tasks[t].addr)
                /\ Has(lastPrimeAt', tasks[t].addr)
                /\ lastPrimeAt'[tasks[t].addr] = now]_vars
    /\ [][\A t \in DOMAIN tasks :
            (tasks[t].pull = "pending" /\ tasks'[t].pull = "ok") =>
                /\ tasks'[t].state = "fulfilled"
                /\ ~Has(primeInflight', tasks[t].addr)
                /\ Has(lastPrimeAt', tasks[t].addr)
                /\ lastPrimeAt'[tasks[t].addr] = now]_vars
    /\ [][(/\ IsPrimeCall
            /\ ~primeCall'.force
            /\ primeCall'.minIntervalMs > 0
            /\ Pulling(primeCall'.addr) = {}
            /\ DoneAt(primeCall'.addr).failAt # Never
            /\ now - DoneAt(primeCall'.addr).failAt.num < primeCall'.minIntervalMs)
           => (TrackerUntouched /\ primeRet' = [kind |-> "resolved", task |-> 0])]_vars
\* a rate-limited call returned at once after the only attempt of the address had failed
C10_Witness ==
    /\ primeRet.kind = "resolved"
    /\ ~primeCall.force
    /\ DoneAt(primeCall.addr).okAt = Never
    /\ DoneAt(primeCall.addr).failAt # Never
    /\ ~Has(snapshots, primeCall.addr)
    /\ ~Has(primeInflight, primeCall.addr)
    /\ \E t \in DOMAIN tasks :
            tasks[t] = [addr |-> primeCall.addr, pull |-> "failed", state |-> "fulfilled"]

\* C11: priming applies the diff of a push notification: a pull whose parsed snapshot
\* equals the snapshot stored for the address appends no position event and performs no
\* write; a pull appends an event only when no snapshot existed or a field differs.
\* performPrime has no such comparison, so a pull that reproduces the snapshot violates it.
C11_PrimeDiffs ==
    [][\A t \in DOMAIN tasks :
         (tasks[t].pull = "pending" /\ tasks'[t].pull = "ok") =>
            LET addr == tasks[t].addr
                same == Has(snapshots, addr) /\ snapshots'[addr].data = snapshots[addr].data
            IN  /\ same => (buffer' = buffer /\ nextSeq' = nextSeq /\ writes' = writes)
                /\ nextSeq' # nextSeq => ~same]_vars

----------------------------------------------------------------------------
(* Spec: one EventQueue, any interleaving of its methods *)

Init == (\E c \in Capacities : Construct(c)) /\ NewTracker /\ NoDistributor /\ Idle

QueuePush == \E evt \in TestEvents : nextSeq <= MaxSeq /\ Push(evt)
QueueListSince == \E s \in Sinces, l \in Limits : ListSince(s, l)
QueueLatestSeq == LatestSeq
QueueReset == resets < MaxResets /\ Reset

Next == QueuePush \/ QueueListSince \/ QueueLatestSeq \/ QueueReset

Spec == Init /\ [][Next]_vars

----------------------------------------------------------------------------
(* Claims about the EventQueue, checked under Spec *)

\* the last n elements of a sequence
LastN(s, n) == SubSeq(s, Len(s) - Min(n, Len(s)) + 1, Len(s))

\* C1: between two resets (or from construction to the first reset) the k-th append
\* returns sequence number k: each append returns one more than the append before it,
\* starting at 1, so no number is returned twice or out of order, also after eviction.
C1_SequenceDense == \A i \in 1..Len(hist) : hist[i].seq = i
\* an append after older events were evicted, in the epoch after a reset
C1_Witness ==
    /\ call.op = "push"
    /\ resets = 1
    /\ Len(hist) > Len(buffer)
    /\ ret.value = Len(hist)

\* C3: the effective capacity is max(100, configured capacity); the number of retained
\* events never exceeds it, and the retained events are exactly the most recently
\* appended ones (the oldest are trimmed from the front); with configured capacity 50
\* and 150 appends exactly 100 events are retained, sequences 51 to 150.
C3_BoundedRetention ==
    /\ capacity = Max(100, configured)
    /\ Len(buffer) <= Max(100, configured)
    /\ buffer = LastN(hist, Max(100, configured))
    /\ (configured = 50 /\ Len(hist) = 150) =>
            /\ Len(buffer) = 100
            /\ buffer[1].seq = 51
            /\ buffer[100].seq = 150
\* the scenario of the test: capacity 50, the 150th append has just returned
C3_Witness ==
    /\ configured = 50
    /\ call.op = "push"
    /\ Len(hist) = 150
    /\ Len(buffer) = 100

\* C5: the retained events carry consecutive increasing sequence numbers, and when the
\* log is not empty the last retained event has sequence latestSeq(): a reader that is
\* told a latest sequence number finds the event of that number retained, with the
\* fields it was pushed with.
C5_LatestIsRetained ==
    /\ \A i \in 1..(Len(buffer) - 1) : buffer[i + 1].seq = buffer[i].seq + 1
    /\ buffer # <<>> =>
            /\ buffer[Len(buffer)].seq = latestSeq(nextSeq)
            /\ buffer[Len(buffer)] = hist[Len(hist)]
            /\ \E evt \in TestEvents :
                    /\ DOMAIN buffer[Len(buffer)] = (DOMAIN evt) \cup {"seq"}
                    /\ \A k \in DOMAIN evt : buffer[Len(buffer)][k] = evt[k]
    /\ buffer = <<>> => latestSeq(nextSeq) = 0
    /\ call.op = "latestSeq" /\ ret.value > 0 =>
            buffer # <<>> /\ buffer[Len(buffer)].seq = ret.value
\* a reader asks for the latest sequence after events were evicted
C5_Witness ==
    /\ call.op = "latestSeq"
    /\ ret.value > capacity
    /\ Len(buffer) = capacity

\* C6: reset() removes every retained event and restarts sequencing: right after it
\* latestSeq() returns 0, listSince(0, n) returns the empty list, and the next push
\* returns sequence number 1.
C6_ResetRestarts ==
    /\ [](call.op = "reset" =>
            /\ buffer = <<>>
            /\ latestSeq(nextSeq) = 0
            /\ \A n \in Limits : listSince(buffer, 0, n) = <<>>)
    /\ [][call.op = "reset" =>
            /\ (call'.op = "latestSeq" => ret'.value = 0)
            /\ (call'.op = "listSince" /\ call'.since = 0 => ret'.events = <<>>)
            /\ (call'.op = "push" => ret'.value = 1)]_vars
\* a reset of a log that had evicted events
C6_Witness ==
    /\ call.op = "reset"
    /\ call.before > capacity

\* C7: listSince does not modify the log, and a second listSince with the same
\* arguments, with no push or reset in between, returns the same events.
C7_ListSinceReadOnly ==
    [][call'.op = "listSince" =>
            /\ buffer' = buffer
            /\ nextSeq' = nextSeq
            /\ capacity' = capacity
            /\ (repeat' => ret' = ret)]_vars
\* the second of two identical listSince calls, returning events of a full log
C7_Witness ==
    /\ call.op = "listSince"
    /\ repeat
    /\ ret.events # <<>>
    /\ Len(buffer) = capacity

----------------------------------------------------------------------------
(* SpecPage: one EventQueue that can hold more events than one page of listSince *)

\* capacity arguments: below the floor, and one above the page-size cap of 1000
CapacitiesPage == {50, 1001}
SincesPage == {0, 1001}
\* limits: none, and (in PageListSince) the number of appends so far
LimitsPage == {0}

InitPage == (\E c \in CapacitiesPage : Construct(c)) /\ NewTracker /\ NoDistributor /\ Idle

PagePush == \E evt \in TestEvents : nextSeq <= MaxSeqPage /\ Push(evt)
PageListSince ==
    \E s \in SincesPage, l \in LimitsPage \cup {latestSeq(nextSeq)} : ListSince(s, l)

NextPage == PagePush \/ PageListSince

SpecPage == InitPage /\ [][NextPage]_vars

----------------------------------------------------------------------------
(* Claims about listSince, checked under SpecPage *)

\* the call is listSince(0, N) after N appends, N exceeding the configured capacity
AfterNAppends ==
    /\ call.op = "listSince"
    /\ call.since = 0
    /\ call.limit = Len(hist)
    /\ Len(hist) > configured

\* C2 as claimed: after N appends exceeding the configured capacity C, listSince(0, N)
\* returns exactly min(N, max(100, C)) events, the most recently appended ones, for
\* every C and N.
C2_AsClaimed ==
    AfterNAppends =>
        /\ Len(ret.events) = Min(Len(hist), Max(100, configured))
        /\ ret.events = LastN(hist, Min(Len(hist), Max(100, configured)))

\* C2 amended: after N appends exceeding the configured capacity C, listSince(0, N)
\* returns exactly min(N, max(100, C), 1000) events, the oldest of the retained ones;
\* they are exactly the most recently appended events whenever max(100, C) is at most
\* the page-size cap of 1000.
C2_PageCapped ==
    AfterNAppends =>
        LET retained == LastN(hist, Max(100, configured))
            n == Min(Min(Len(hist), Max(100, configured)), 1000)
        IN  /\ Len(ret.events) = n
            /\ ret.events = SubSeq(retained, 1, n)
            /\ Max(100, configured) <= 1000 => ret.events = LastN(hist, n)
\* listSince(0, N) on a log that retains more events than one page holds
C2_Witness ==
    /\ AfterNAppends
    /\ Len(buffer) > 1000
    /\ Len(ret.events) = 1000

\* number of retained events with a sequence number greater than s
NewerCount(s) == Cardinality({i \in 1..Len(buffer) : buffer[i].seq > s})
\* the n oldest of the retained events with a sequence number greater than s
OldestNewer(s, n) ==
    LET k == NewerCount(s)
    IN  SubSeq(buffer, Len(buffer) - k + 1, Len(buffer) - k + Min(n, k))

\* C4 as claimed: listSince(s, limit) returns the contiguous run of retained events that
\* starts at the oldest one with sequence greater than s and has at most
\* min(limit, 1000) events; empty when s >= latestSeq(); the earliest retained events
\* when s is older than the oldest retained event.
C4_AsClaimed ==
    call.op = "listSince" =>
        /\ Len(ret.events) <= Min(call.limit, 1000)
        /\ ret.events = OldestNewer(call.since, Len(ret.events))
        /\ call.since >= latestSeq(nextSeq) => ret.events = <<>>

\* C4 amended: listSince(s, limit) returns, in increasing sequence order, the contiguous
\* run of retained events that starts at the oldest one with sequence greater than s and
\* has at most max(1, min(limit, 1000)) events (all of them when there are fewer): a
\* limit below 1 is served as 1; the result is empty when s >= latestSeq(), and when s is
\* older than the oldest retained event it starts at the oldest retained event.
C4_ListSinceRun ==
    call.op = "listSince" =>
        LET n == Max(1, Min(call.limit, 1000))
        IN  /\ ret.events = OldestNewer(call.since, n)
            /\ Len(ret.events) = Min(n, NewerCount(call.since))
            /\ \A i \in 1..(Len(ret.events) - 1) :
                    ret.events[i + 1].seq = ret.events[i].seq + 1
            /\ call.since >= latestSeq(nextSeq) => ret.events = <<>>
            /\ (buffer # <<>> /\ call.since < buffer[1].seq) =>
                    ret.events[1] = buffer[1]
\* a request older than the oldest retained event, cut at the page-size cap
C4_Witness ==
    /\ call.op = "listSince"
    /\ call.limit > 1000
    /\ buffer # <<>>
    /\ call.since + 1 < buffer[1].seq
    /\ Len(ret.events) = 1000

----------------------------------------------------------------------------
(* The WebSocket distributor (src/src/server.ts): connection, catch-up, broadcast *)
(* tick, heartbeat                                                                *)

\* connections accepted in SpecWs
MaxClients == 2
\* events appended one by one in SpecWs, and before a burst in SpecWsPage
MaxWsSeq == 2
\* events a burst of upstream activity appends between two steps of the distributor in
\* SpecWsPage (one more than the catch-up page of 500)
BurstSize == 501
\* events appended in SpecWsPage
MaxWsPageSeq == 503

\* changes.listSince(msg.since, 500)
CatchUpLimit == 500
\* changes.listSince(c.lastSeq, 200)
BroadcastLimit == 200
\* ws.readyState
OPEN == 1
CLOSING == 2

\* const c = { ws, lastSeq: 0, alive: true }
NewClient(id) == [id |-> id, lastSeq |-> 0, alive |-> TRUE, readyState |-> OPEN]

\* history of a consumer: the latestSeq of its hello frame, whether it asked for a
\* catch-up, whether a heartbeat probed it, whether it answered since, how it left, and
\* the first and last sequence of every events frame a tick handed to ws.send for it
\* before its first catch-up request
NewObs(hello) ==
    [hello |-> hello, asked |-> FALSE, probed |-> FALSE, ponged |-> FALSE, gone |-> "no",
     got |-> <<>>]

\* JSON.stringify({ type, events }) / ({ type: 'hello', latestSeq })
Frame(type, events) == [type |-> type, events |-> events]
Hello(latest) == [type |-> "hello", latestSeq |-> latest]

\* a handler of the distributor ran: its input, the frames it handed to ws.send (by
\* consumer), and the consumer whose send threw (0: none)
WsCall(op, id, msg, frames, thrown) ==
    [op |-> op, id |-> id, msg |-> msg, frames |-> frames, thrown |-> thrown]

\* the consumers in the set, their position in it
ClientIds == {clients[i].id : i \in DOMAIN clients}
IndexOf(id) == CHOOSE i \in DOMAIN clients : clients[i].id = id
ClientOf(id) == clients[IndexOf(id)]
\* clients.delete(c)
Without(cs, id) == SelectSeq(cs, LAMBDA c : c.id # id)

\* events[events.length - 1].seq
LastSeqOf(events) == events[Len(events)].seq

\* messages of a consumer: text that is not JSON, JSON null, objects whose since is a
\* string or a number
WsSinces == {0, 1, 600}
Unparsable == [garbage |-> TRUE]
Messages ==
    {Unparsable, Null, [since |-> [str |-> "1"]]}
        \cup {[since |-> Num(n)] : n \in WsSinces}
\* msg && typeof msg.since === 'number'
HasNumericSince(msg) == "since" \in DOMAIN msg /\ "num" \in DOMAIN msg.since

\* count > 25 ? 250 : count > 10 ? 500 : 1000
IntervalFixed(count) == 1000
Interval(count) == IF count > 25 THEN 250 ELSE IF count > 10 THEN 500 ELSE 1000

\* wss.on('connection')
Connect ==
    LET id == Len(wsObs) + 1
    IN  /\ clients' = Append(clients, NewClient(id))
        /\ wsObs' = Append(wsObs, NewObs(latestSeq(nextSeq)))
        /\ wsCall' = WsCall("connection", id, <<>>, id :> Hello(latestSeq(nextSeq)), 0)
        /\ UNCHANGED <<queueVars, queueObs, hist, trackerVars, broadcastInterval, timer,
                       restVars>>

\* changes.listSince(msg.since, 500)
CatchUpShort(buf, since) == listSince(buf, since, BroadcastLimit)
CatchUp(buf, since) == listSince(buf, since, CatchUpLimit)

\* ws.on('message'); a throw of JSON.parse or of ws.send ends in the empty catch
OnMessage(id, msg) ==
    LET i == IndexOf(id)
        events == CatchUp(buffer, msg.since.num)
    IN  /\ id \in ClientIds
        /\ ClientOf(id).readyState = OPEN
        /\ IF HasNumericSince(msg)
           THEN /\ clients' = [clients EXCEPT ![i].lastSeq =
                                   IF events # <<>> THEN LastSeqOf(events) ELSE msg.since.num]
                /\ wsObs' = [wsObs EXCEPT ![id].asked = TRUE]
                /\ wsCall' = WsCall("message", id, msg,
                                    IF events # <<>> THEN id :> Frame("batch", events)
                                                     ELSE <<>>, 0)
           ELSE /\ wsCall' = WsCall("message", id, msg, <<>>, 0)
                /\ UNCHANGED <<clients, wsObs, restVars>>
        /\ UNCHANGED <<queueVars, queueObs, hist, trackerVars, broadcastInterval, timer,
                       restVars>>

\* ws.on('pong')
OnPong(id) ==
    /\ id \in ClientIds
    /\ ClientOf(id).readyState = OPEN
    /\ clients' = [clients EXCEPT ![IndexOf(id)].alive = TRUE]
    /\ wsObs' = [wsObs EXCEPT ![id].ponged = TRUE]
    /\ wsCall' = WsCall("pong", id, <<>>, <<>>, 0)
    /\ UNCHANGED <<queueVars, queueObs, hist, trackerVars, broadcastInterval, timer, restVars>>

\* the connection of a consumer leaves the OPEN state (before its close event)
Closing(id) ==
    /\ id \in ClientIds
    /\ ClientOf(id).readyState = OPEN
    /\ clients' = [clients EXCEPT ![IndexOf(id)].readyState = CLOSING]
    /\ wsCall' = WsCall("closing", id, <<>>, <<>>, 0)
    /\ UNCHANGED <<queueVars, queueObs, hist, trackerVars, wsObs, broadcastInterval, timer,
                   restVars>>

\* ws.on('close')
OnClose(id) ==
    /\ id \in ClientIds
    /\ clients' = Without(clients, id)
    /\ wsObs' = [wsObs EXCEPT ![id].gone = "close"]
    /\ wsCall' = WsCall("close", id, <<>>, <<>>, 0)
    /\ UNCHANGED <<queueVars, queueObs, hist, trackerVars, broadcastInterval, timer, restVars>>

\* the events a tick finds for a consumer: changes.listSince(c.lastSeq, 200)
NewerFromCursor(buf, c) == listSince(buf, c.lastSeq - 1, BroadcastLimit)
Newer(buf, c) == listSince(buf, c.lastSeq, BroadcastLimit)
\* c.ws.readyState !== 1 -> continue; if (events.length) -> ws.send
Served(buf, c) == c.readyState = OPEN /\ Newer(buf, c) # <<>>

\* scheduleBroadcast()
ScheduleBroadcast ==
    /\ broadcastInterval' = Interval(Len(clients'))
    /\ timer' = TRUE

\* runBroadcast(), the callback of the pending timeout. f = 0: no ws.send throws and the
\* tick ends in scheduleBroadcast(); otherwise the send to the f-th consumer throws: the
\* exception leaves the loop and the function, after the cursor of that consumer was set
RunBroadcast(f) ==
    LET reached == {i \in DOMAIN clients : f = 0 \/ i <= f}
        sentTo == {i \in reached : Served(buffer, clients[i])}
    IN  /\ timer
        /\ f = 0 \/ (f \in DOMAIN clients /\ Served(buffer, clients[f]))
        /\ clients' = [i \in DOMAIN clients |->
                         IF i \in sentTo
                         THEN [clients[i] EXCEPT !.lastSeq = LastSeqOf(Newer(buffer, clients[i]))]
                         ELSE clients[i]]
        /\ wsCall' = WsCall("tick", 0, <<>>,
                            [id \in {clients[i].id : i \in sentTo} |->
                                Frame("events", Newer(buffer, ClientOf(id)))],
                            IF f = 0 THEN 0 ELSE clients[f].id)
        /\ wsObs' = [id \in DOMAIN wsObs |->
                       IF id \in {clients[i].id : i \in sentTo} /\ ~wsObs[id].asked
                       THEN LET events == Newer(buffer, ClientOf(id))
                            IN  [wsObs[id] EXCEPT
                                    !.got = Append(@, <<events[1].seq, LastSeqOf(events)>>)]
                       ELSE wsObs[id]]
        /\ IF f = 0 THEN ScheduleBroadcast
                    ELSE timer' = FALSE /\ UNCHANGED broadcastInterval
        /\ UNCHANGED <<queueVars, queueObs, hist, trackerVars, restVars>>

\* if (!c.alive) { terminate; clients.delete(c); continue }
NeverUnresponsive(c) == FALSE
Unresponsive(c) == ~c.alive

\* the callback of setInterval(..., 30000); a throw of terminate or ping is swallowed
Heartbeat ==
    LET kept == SelectSeq(clients, LAMBDA c : ~Unresponsive(c))
    IN  /\ clients' = [i \in DOMAIN kept |-> [kept[i] EXCEPT !.alive = FALSE]]
        /\ wsObs' = [id \in DOMAIN wsObs |->
                       IF id \notin ClientIds THEN wsObs[id]
                       ELSE IF Unresponsive(ClientOf(id))
                            THEN [wsObs[id] EXCEPT !.gone = "heartbeat"]
                            ELSE [wsObs[id] EXCEPT !.probed = TRUE, !.ponged = FALSE]]
        /\ wsCall' = WsCall("heartbeat", 0, <<>>, <<>>, 0)
        /\ UNCHANGED <<queueVars, queueObs, hist, trackerVars, broadcastInterval, timer,
                       restVars>>

\* k consecutive q.push(evt) of the tracker: the events numbered from nextSeq on are
\* appended; what each push splices from the front adds up to one splice of the surplus
PushMany(buf, cap, next, evt, k) ==
    [buffer |-> Trim(buf \o [i \in 1..k |-> WithSeq(evt, next + i - 1)], cap),
     nextSeq |-> next + k]

Produce(evt, k) ==
    LET after == PushMany(buffer, capacity, nextSeq, evt, k)
    IN  /\ buffer' = after.buffer
        /\ nextSeq' = after.nextSeq
        /\ wsCall' = WsCall("push", 0, <<>>, <<>>, 0)
        /\ UNCHANGED <<configured, capacity, queueObs, hist, trackerVars, clients, wsObs,
                       broadcastInterval, timer, restVars>>

----------------------------------------------------------------------------
(* SpecWs: the distributor on the server's queue *)

\* the server after start-up: the queue, no consumer, the first tick scheduled
InitWs ==
    /\ Construct(ServerCapacity)
    /\ NewTracker
    /\ clients = <<>>
    /\ wsObs = <<>>
    /\ broadcastInterval = Interval(0)
    /\ timer = TRUE
    /\ wsCall = WsCall("none", 0, <<>>, <<>>, 0)
    /\ Idle

\* the catch-up requests of SpecWs
MessagesWs == {Unparsable, [since |-> Num(0)]}

WsConnect == Len(wsObs) < MaxClients /\ Connect
WsMessage == \E id \in ClientIds, msg \in MessagesWs : OnMessage(id, msg)
WsPong == \E id \in ClientIds : OnPong(id)
WsClosing == \E id \in ClientIds : Closing(id)
WsClose == \E id \in ClientIds : OnClose(id)
WsTick == \E f \in 0..Len(clients) : RunBroadcast(f)
WsHeartbeat == Heartbeat
WsProduce == \E evt \in TestEvents : latestSeq(nextSeq) < MaxWsSeq /\ Produce(evt, 1)

NextWs ==
    \/ WsConnect
    \/ WsMessage
    \/ WsPong
    \/ WsClosing
    \/ WsClose
    \/ WsTick
    \/ WsHeartbeat
    \/ WsProduce

SpecWs == InitWs /\ [][NextWs]_vars

----------------------------------------------------------------------------
(* SpecWsPage: one consumer and a log longer than the pages of the distributor *)

PageConnect == Len(wsObs) < 1 /\ Connect
PageMessage == \E id \in ClientIds, msg \in Messages : OnMessage(id, msg)
PageTick == \E f \in 0..Len(clients) : RunBroadcast(f)
PageProduce ==
    \E evt \in TestEvents, k \in {1, BurstSize} :
        /\ k = 1 => (latestSeq(nextSeq) < MaxWsSeq \/ latestSeq(nextSeq) >= BurstSize)
        /\ latestSeq(nextSeq) + k <= MaxWsPageSeq
        /\ Produce(evt, k)

NextWsPage == PageConnect \/ PageMessage \/ PageTick \/ PageProduce

SpecWsPage == InitWs /\ [][NextWsPage]_vars

----------------------------------------------------------------------------
(* Claims about the distributor, checked under SpecWs and SpecWsPage *)

\* the retained events of sequence above s, oldest first, and the first n of a list
NewerThan(buf, s) == SelectSeq(buf, LAMBDA e : e.seq > s)
FirstN(events, n) == SubSeq(events, 1, Min(n, Len(events)))
\* the step is a run of the named handler
IsTick == wsCall'.op = "tick"
IsMessage == wsCall'.op = "message"
IsHeartbeat == wsCall'.op = "heartbeat"
\* the consumers connected after the step
ClientIdsAfter == {clients'[i].id : i \in DOMAIN clients'}
\* the step leaves the Log as it is
LogUntouched == buffer' = buffer /\ nextSeq' = nextSeq /\ capacity' = capacity

\* C16: a consumer that connects and never sends a catch-up request receives nothing
\* retroactively: no event appended before it connected (sequence at most the latestSeq
\* of its hello frame) is ever sent to it. The cursor of a new consumer is 0, so the
\* first tick sends it the retained events from the oldest on.
C16_NothingRetroactive ==
    \A id \in DOMAIN wsCall.frames :
        LET frame == wsCall.frames[id]
        IN  (frame.type = "events" /\ ~wsObs[id].asked) =>
                \A i \in DOMAIN frame.events : frame.events[i].seq > wsObs[id].hello

\* C17: on a catch-up request carrying the number s the cursor of the consumer is set to
\* s and the consumer is sent one batch frame with the retained events of sequence above
\* s, oldest first, at most 500 of them, after which its cursor is the sequence of the
\* last event sent; with no such event no frame is sent and the cursor stays s; a message
\* that does not parse or carries no numeric since changes no cursor and sends nothing.
C17_CatchUp ==
    [][IsMessage =>
        LET id == wsCall'.id
            msg == wsCall'.msg
            i == IndexOf(id)
            page == FirstN(NewerThan(buffer, msg.since.num), CatchUpLimit)
        IN  /\ LogUntouched
            /\ \A j \in DOMAIN clients : j # i => clients'[j] = clients[j]
            /\ IF ~HasNumericSince(msg)
               THEN clients' = clients /\ wsCall'.frames = <<>>
               ELSE IF page = <<>>
               THEN /\ clients'[i] = [clients[i] EXCEPT !.lastSeq = msg.since.num]
                    /\ wsCall'.frames = <<>>
               ELSE /\ clients'[i] = [clients[i] EXCEPT !.lastSeq = LastSeqOf(page)]
                    /\ wsCall'.frames = (id :> Frame("batch", page))]_vars
\* a catch-up from 0 on a log of more than 500 events was answered with the first 500
C17_Witness ==
    /\ wsCall.op = "message"
    /\ wsCall.msg = [since |-> Num(0)]
    /\ Len(buffer) > CatchUpLimit
    /\ wsCall.id \in DOMAIN wsCall.frames
    /\ Len(wsCall.frames[wsCall.id].events) = CatchUpLimit
    /\ ClientOf(wsCall.id).lastSeq = CatchUpLimit

\* what a tick owes the consumer at position i: an events frame with the retained events
\* newer than its cursor, at most 200, and the cursor moved to the last of them; nothing
\* and no change when there is none or the connection is not open
TickServes(i) ==
    LET c == clients[i]
        page == FirstN(NewerThan(buffer, c.lastSeq), BroadcastLimit)
    IN  /\ i \in DOMAIN clients'
        /\ IF c.readyState = OPEN /\ page # <<>>
           THEN /\ c.id \in DOMAIN wsCall'.frames
                /\ wsCall'.frames[c.id] = Frame("events", page)
                /\ clients'[i] = [c EXCEPT !.lastSeq = LastSeqOf(page)]
           ELSE /\ c.id \notin DOMAIN wsCall'.frames
                /\ clients'[i] = c

\* C18: on every broadcast tick each connected consumer whose connection is open is sent
\* one events frame with the retained events newer than its cursor (at most 200) and its
\* cursor becomes the sequence of the last one; a consumer with nothing newer gets no
\* frame, a consumer whose connection is not open is skipped, the Log is unchanged.
\* A tick in which a send throws (C19) does not reach the consumers after that one.
C18_TickServesAll ==
    [][IsTick => (LogUntouched /\ \A i \in DOMAIN clients : TickServes(i))]_vars

\* C19: when the send to one consumer fails during a tick only that consumer is affected:
\* it is dropped, every other open consumer is served in that tick, the scheduler is
\* rescheduled, the Log is unchanged. runBroadcast has no try around ws.send: the
\* exception ends the tick, nobody is dropped and no further tick is scheduled.
C19_SendFailureIsolated ==
    [][(IsTick /\ wsCall'.thrown # 0) =>
        /\ LogUntouched
        /\ wsCall'.thrown \notin ClientIdsAfter
        /\ \A i \in DOMAIN clients : clients[i].id # wsCall'.thrown => TickServes(i)
        /\ timer']_vars

\* a heartbeat probed the consumer and no pong of it arrived since
Silent(id) == wsObs[id].probed /\ ~wsObs[id].ponged

\* C20: at each heartbeat a consumer that has not answered since the previous probe is
\* terminated and removed, and no later tick serves it; a consumer that answered, or
\* connected after the previous probe, is kept, marked as awaiting an answer and probed
\* again; the heartbeat removes no consumer that answers every probe.
C20_Heartbeat ==
    /\ [][IsHeartbeat =>
            \A i \in DOMAIN clients :
                LET c == clients[i]
                IN  IF Silent(c.id)
                    THEN c.id \notin ClientIdsAfter /\ wsObs'[c.id].gone = "heartbeat"
                    ELSE /\ \E j \in DOMAIN clients' : clients'[j] = [c EXCEPT !.alive = FALSE]
                         /\ wsObs'[c.id].gone = "no"
                         /\ wsObs'[c.id].probed /\ ~wsObs'[c.id].ponged]_vars
    /\ [][\A id \in DOMAIN wsObs :
            wsObs[id].gone # "no" =>
                id \notin ClientIdsAfter /\ ~(IsTick /\ id \in DOMAIN wsCall'.frames)]_vars
    /\ [][\A id \in DOMAIN wsObs :
            (wsObs[id].gone = "no" /\ wsObs'[id].gone = "heartbeat") => Silent(id)]_vars
\* a heartbeat removed a silent consumer and kept, and probed again, one that had answered
C20_Witness ==
    /\ wsCall.op = "heartbeat"
    /\ Len(wsObs) = 2
    /\ wsObs[1].gone = "heartbeat"
    /\ wsObs[2].gone = "no"
    /\ Len(clients) = 1
    /\ clients[1].id = 2
    /\ ~clients[1].alive
    /\ Silent(2)

----------------------------------------------------------------------------
(* RealtimeTracker: subscriptions (refresh, subscribeAddress, stop) *)

\* invocations of refresh() in SpecSubs
MaxRefreshes == 2

\* addresses as getAddresses() can return them, and a.toLowerCase()
RawAddrs == {"0xA", "0xb"}
Lower(a) == IF a = "0xA" THEN "0xa" ELSE a
\* the order in which the loops visit addresses
AddrOrder == <<"0xa", "0xb">>
Pos(a) == CHOOSE i \in DOMAIN AddrOrder : AddrOrder[i] = a
First(S) == CHOOSE a \in S : \A b \in S : Pos(a) <= Pos(b)
After(S, a) == {b \in S : Pos(b) > Pos(a)}

\* const subs: { ch?, ue?, ueTransport? } = {}; 0 stands for an absent handle
NoSubs == [ch |-> 0, ue |-> 0, ueTransport |-> 0]
\* an upstream subscription or transport, as created
NewHandle(kind, addr) == [kind |-> kind, addr |-> addr, state |-> "live"]

\* try { await h?.unsubscribe?.() } catch {}: the handles after the call returned or threw
Teardown(hs, h, outcome) ==
    IF h # 0 /\ outcome = "ok" THEN [hs EXCEPT ![h].state = "closed"] ELSE hs
\* how the awaited call can end; an absent handle makes the await return at once
Outcomes(h) == IF h = 0 THEN {"ok"} ELSE {"ok", "throws", "hangs"}

\* an invocation of refresh(): its position (pc), its locals (addrs, current, the rest of
\* the running loop, the address and handles in hand, the subs object under construction)
\* and its history (subs as it found them, what it subscribed, primed and removed,
\* whether another refresh ran while it did, whether an awaited call never returned)
NewRefresh(overlapped) ==
    [pc |-> "list", addrs |-> {}, current |-> {}, todo |-> {}, addr |-> "", s |-> NoSubs,
     new |-> NoSubs, before |-> EmptyMap, attempted |-> {}, primed |-> {}, removed |-> {},
     overlapped |-> overlapped, hung |-> FALSE]
Running(r) == r.pc \notin {"done", "rejected"}
AnyRunning(rs) == \E i \in DOMAIN rs : Running(rs[i])

\* for (const addr of current) if (!addrs.includes(addr)): the addresses to remove
RemovesNothing(current, addrs) == {}
Removed(current, addrs) == current \ addrs

\* the subscribe loop from the addresses still to visit: the next address without subs
\* entry starts subscribeAddress (up to its await of subClearinghouse); none: refresh ends
EnterSub(r, todo, subsNow) ==
    LET missing == {a \in todo : ~Has(subsNow, a)}
    IN  IF missing = {}
        THEN [r EXCEPT !.pc = "done", !.todo = {}, !.addr = "", !.s = NoSubs, !.new = NoSubs]
        ELSE [r EXCEPT !.pc = "sub_ch", !.addr = First(missing),
                       !.todo = After(todo, First(missing)), !.s = NoSubs, !.new = NoSubs,
                       !.attempted = @ \cup {First(missing)}]

\* the removal loop from the addresses still to visit: the next removed address is taken
\* in hand (const s = this.subs.get(addr), up to the await of s.ch.unsubscribe); none: the
\* subscribe loop starts
EnterRm(r, todo, subsNow) ==
    LET gone == Removed(todo, r.addrs)
    IN  IF gone = {}
        THEN EnterSub(r, r.addrs, subsNow)
        ELSE [r EXCEPT !.pc = "rm_ch", !.addr = First(gone), !.todo = After(todo, First(gone)),
                       !.s = IF Has(subsNow, First(gone)) THEN subsNow[First(gone)] ELSE NoSubs]

\* every variable but those of the tracker's subscriptions and priming calls
otherVars == <<queueVars, queueObs, hist, wsVars, now, done, writes, lastPrimeAt>>

\* refresh() is invoked: up to the await of getAddresses()
RefreshStart ==
    /\ stopRun.pc = "idle"
    /\ refreshes' = Append([i \in DOMAIN refreshes |->
                               IF Running(refreshes[i])
                               THEN [refreshes[i] EXCEPT !.overlapped = TRUE]
                               ELSE refreshes[i]],
                           NewRefresh(AnyRunning(refreshes)))
    /\ UNCHANGED <<otherVars, subs, listed, handles, stopRun, snapshots, primeInflight,
                   tasks, primeCall, primeRet, restVars>>

\* getAddresses() rejected: refresh() rejects
RefreshListFails(i) ==
    /\ refreshes[i].pc = "list"
    /\ refreshes' = [refreshes EXCEPT ![i].pc = "rejected"]
    /\ UNCHANGED <<otherVars, subs, listed, handles, stopRun, snapshots, primeInflight,
                   tasks, primeCall, primeRet, restVars>>

\* getAddresses() resolved: addrs, current, and on to the first await of the loops
RefreshListed(i) ==
    LET r == [refreshes[i] EXCEPT !.addrs = {Lower(a) : a \in listed},
                                  !.current = DOMAIN subs, !.before = subs]
    IN  /\ refreshes[i].pc = "list"
        /\ refreshes' = [refreshes EXCEPT ![i] = EnterRm(r, DOMAIN subs, subs)]
        /\ UNCHANGED <<otherVars, subs, listed, handles, stopRun, snapshots, primeInflight,
                       tasks, primeCall, primeRet, restVars>>

\* the handle a teardown step awaits
Awaited(s, pc) ==
    IF pc \in {"rm_ch", "ch"} THEN s.ch
    ELSE IF pc \in {"rm_ue", "ue"} THEN s.ue
    ELSE s.ueTransport

\* the removal of an address: the awaited unsubscribe / close returned, threw (swallowed)
\* or never returns; after the third, subs.delete(addr); snapshots.delete(addr), next address
RefreshRemoveStep(i, outcome) ==
    LET r == refreshes[i]
        h == Awaited(r.s, r.pc)
    IN  /\ r.pc \in {"rm_ch", "rm_ue", "rm_tr"}
        /\ ~r.hung
        /\ outcome \in Outcomes(h)
        /\ IF outcome = "hangs"
           THEN /\ refreshes' = [refreshes EXCEPT ![i].hung = TRUE]
                /\ UNCHANGED <<subs, handles, snapshots, restVars>>
           ELSE /\ handles' = Teardown(handles, h, outcome)
                /\ IF r.pc = "rm_ch"
                   THEN /\ refreshes' = [refreshes EXCEPT ![i].pc = "rm_ue"]
                        /\ UNCHANGED <<subs, snapshots, restVars>>
                   ELSE IF r.pc = "rm_ue"
                   THEN /\ refreshes' = [refreshes EXCEPT ![i].pc = "rm_tr"]
                        /\ UNCHANGED <<subs, snapshots, restVars>>
                   ELSE /\ subs' = Delete(subs, r.addr)
                        /\ snapshots' = Delete(snapshots, r.addr)
                        /\ refreshes' = [refreshes EXCEPT ![i] =
                               EnterRm([r EXCEPT !.removed = @ \cup {r.addr}], r.todo, subs')]
        /\ UNCHANGED <<otherVars, listed, stopRun, primeInflight, tasks, primeCall, primeRet,
                       restVars>>

\* subscribeAddress: subClearinghouse resolved (subs.ch) or rejected (warned); then the
\* transport of the fills subscription is created, up to the await of subUserEvents
SubscribeChStep(i, ok) ==
    LET r == refreshes[i]
        n == Len(handles)
        withCh == IF ok THEN Append(handles, NewHandle("ch", r.addr)) ELSE handles
    IN  /\ r.pc = "sub_ch"
        /\ handles' = Append(withCh, NewHandle("ueTransport", r.addr))
        /\ refreshes' = [refreshes EXCEPT ![i].pc = "sub_ue",
                            ![i].new = [ch |-> IF ok THEN n + 1 ELSE 0, ue |-> 0,
                                        ueTransport |-> Len(withCh) + 1]]
        /\ UNCHANGED <<otherVars, subs, listed, stopRun, snapshots, primeInflight, tasks,
                       primeCall, primeRet, restVars>>

\* this.subs.set(addr, subs); if (!this.snapshots.has(addr)) void this.primeFromHttp(addr);
\* then the loop of refresh goes on
PrimesNew(snaps, addr) == ~Has(snaps, addr)
FinishSubscribe(i, new) ==
    LET r == refreshes[i]
    IN  /\ subs' = Put(subs, r.addr, new)
        /\ IF PrimesNew(snapshots, r.addr)
           THEN /\ PrimeFromHttpCall(r.addr, TRUE, 0)
                /\ refreshes' = [refreshes EXCEPT ![i] =
                       EnterSub([r EXCEPT !.primed = @ \cup {r.addr}], r.todo, subs')]
           ELSE /\ refreshes' = [refreshes EXCEPT ![i] = EnterSub(r, r.todo, subs')]
                /\ UNCHANGED <<primeInflight, tasks, primeCall, primeRet, restVars>>

\* subscribeAddress: subUserEvents resolved (subs.ue) and the address is recorded, or it
\* rejected, up to the await of subs.ueTransport.close()
SubscribeUeStep(i, ok) ==
    LET r == refreshes[i]
    IN  /\ r.pc = "sub_ue"
        /\ IF ok
           THEN /\ handles' = Append(handles, NewHandle("ue", r.addr))
                /\ FinishSubscribe(i, [r.new EXCEPT !.ue = Len(handles) + 1])
           ELSE /\ refreshes' = [refreshes EXCEPT ![i].pc = "sub_close"]
                /\ UNCHANGED <<handles, subs, primeInflight, tasks, primeCall, primeRet,
                               restVars>>
        /\ UNCHANGED <<otherVars, listed, stopRun, snapshots, restVars>>

\* subscribeAddress: the close of the transport returned or threw (swallowed); the address
\* is recorded with the handles it has
SubscribeCloseStep(i, outcome) ==
    LET r == refreshes[i]
    IN  /\ r.pc = "sub_close"
        /\ outcome \in {"ok", "throws"}
        /\ handles' = Teardown(handles, r.new.ueTransport, outcome)
        /\ FinishSubscribe(i, r.new)
        /\ UNCHANGED <<otherVars, listed, stopRun, snapshots, restVars>>

\* an invocation of stop(): its position, the address and handles in hand, the entries
\* visited, and its history (the subs it found, the handles whose teardown it called,
\* whether a call threw, whether a call never returned)
NewStop ==
    [pc |-> "idle", addr |-> "", s |-> NoSubs, visited |-> {}, before |-> EmptyMap,
     called |-> {}, threw |-> FALSE, hung |-> FALSE]

\* for (const [, s] of this.subs): the next entry is taken in hand, up to the await of
\* s.ch.unsubscribe; none left: this.subs.clear() and stop() returns
StopLoop(st, subsNow) ==
    LET rest == (DOMAIN subsNow) \ st.visited
    IN  IF rest = {}
        THEN [st EXCEPT !.pc = "done", !.addr = "", !.s = NoSubs]
        ELSE [st EXCEPT !.pc = "ch", !.addr = First(rest), !.s = subsNow[First(rest)],
                        !.visited = @ \cup {First(rest)},
                        !.called = @ \cup ({subsNow[First(rest)].ch} \ {0})]

\* stop() is invoked (no refresh is running)
StopStart ==
    /\ stopRun.pc = "idle"
    /\ ~AnyRunning(refreshes)
    /\ stopRun' = StopLoop([NewStop EXCEPT !.before = subs], subs)
    /\ subs' = IF stopRun'.pc = "done" THEN EmptyMap ELSE subs
    /\ UNCHANGED <<otherVars, listed, handles, refreshes, snapshots, primeInflight, tasks,
                   primeCall, primeRet, restVars>>

\* the step after an awaited teardown call of stop(): a throw is swallowed
AbortsOnThrow(pc, outcome) == IF outcome = "throws" THEN "next" ELSE
                              IF pc = "ch" THEN "ue" ELSE IF pc = "ue" THEN "tr" ELSE "next"
StepAfter(pc, outcome) == IF pc = "ch" THEN "ue" ELSE IF pc = "ue" THEN "tr" ELSE "next"

\* stop(): the awaited unsubscribe / close returned, threw (swallowed) or never returns
StopStep(outcome) ==
    LET st == [stopRun EXCEPT !.threw = @ \/ outcome = "throws"]
        h == Awaited(stopRun.s, stopRun.pc)
        to == StepAfter(stopRun.pc, outcome)
    IN  /\ stopRun.pc \in {"ch", "ue", "tr"}
        /\ ~stopRun.hung
        /\ outcome \in Outcomes(h)
        /\ IF outcome = "hangs"
           THEN /\ stopRun' = [stopRun EXCEPT !.hung = TRUE]
                /\ UNCHANGED <<handles, subs, restVars>>
           ELSE /\ handles' = Teardown(handles, h, outcome)
                /\ stopRun' =
                       IF to = "next" THEN StopLoop(st, subs)
                       ELSE [st EXCEPT !.pc = to,
                                       !.called = @ \cup ({Awaited(st.s, to)} \ {0})]
                /\ subs' = IF stopRun'.pc = "done" THEN EmptyMap ELSE subs
        /\ UNCHANGED <<otherVars, listed, refreshes, snapshots, primeInflight, tasks,
                       primeCall, primeRet, restVars>>

\* the stored list of addresses changes (an address is added or removed through the API)
ListChange(to) ==
    /\ to # listed
    /\ listed' = to
    /\ UNCHANGED <<otherVars, subs, handles, refreshes, stopRun, snapshots, primeInflight,
                   tasks, primeCall, primeRet, restVars>>

----------------------------------------------------------------------------
(* SpecSubs: a tracker whose list changes, that is refreshed (one refresh at a    *)
(* time) and primed from outside                                                 *)

\* calls of primeFromHttp from outside the tracker (the POST /api/addresses handler)
MaxSubsCalls == 1
\* the positions the pulls of SpecSubs return
LongPositions == {raw \in RawPositions : raw.szi = Num(2)}

InitSubs == Construct(ServerCapacity) /\ NewTracker /\ NoDistributor /\ Idle

\* (a change while a refresh runs is seen by the next refresh only, as one after it)
SubsListChange ==
    \E to \in SUBSET RawAddrs :
        ~AnyRunning(refreshes) /\ stopRun.pc = "idle" /\ ListChange(to)
SubsRefresh == Len(refreshes) < MaxRefreshes /\ ~AnyRunning(refreshes) /\ RefreshStart
SubsListFails == \E i \in DOMAIN refreshes : RefreshListFails(i)
SubsListed == \E i \in DOMAIN refreshes : RefreshListed(i)
SubsRemoveStep ==
    \E i \in DOMAIN refreshes, outcome \in {"ok", "throws", "hangs"} :
        RefreshRemoveStep(i, outcome)
SubsChStep == \E i \in DOMAIN refreshes, ok \in BOOLEAN : SubscribeChStep(i, ok)
SubsUeStep == \E i \in DOMAIN refreshes, ok \in BOOLEAN : SubscribeUeStep(i, ok)
SubsCloseStep ==
    \E i \in DOMAIN refreshes, outcome \in {"ok", "throws"} : SubscribeCloseStep(i, outcome)
SubsStop == StopStart
SubsStopStep == \E outcome \in {"ok", "throws", "hangs"} : StopStep(outcome)
SubsPrimeCalled ==
    \E addr \in Addrs : primeCall.n < MaxSubsCalls /\ PrimeFromHttp(addr, TRUE, 0)
SubsPullSucceeds ==
    \E t \in DOMAIN tasks, raw \in LongPositions, mark \in MarkPrices :
        PullSucceeds(t, raw, mark)

NextSubs ==
    \/ SubsListChange
    \/ SubsRefresh
    \/ SubsListFails
    \/ SubsListed
    \/ SubsRemoveStep
    \/ SubsChStep
    \/ SubsUeStep
    \/ SubsCloseStep
    \/ SubsPrimeCalled
    \/ SubsPullSucceeds

SpecSubs == InitSubs /\ [][NextSubs]_vars

----------------------------------------------------------------------------
(* SpecStop: a tracker whose list changes, that is refreshed (one refresh at a   *)
(* time) and then stopped; no pull completes                                     *)

NextStop ==
    \/ SubsListChange
    \/ SubsRefresh
    \/ SubsListFails
    \/ SubsListed
    \/ SubsRemoveStep
    \/ SubsChStep
    \/ SubsUeStep
    \/ SubsCloseStep
    \/ SubsStop
    \/ SubsStopStep

SpecStop == InitSubs /\ [][NextStop]_vars

----------------------------------------------------------------------------
(* Claims about subscriptions, checked under SpecSubs and SpecStop *)

\* the canonical list, lowercased
Canonical == {Lower(a) : a \in listed}
\* the step completes refresh i, which no other refresh overlapped
Completes(i) ==
    /\ Running(refreshes[i])
    /\ refreshes'[i].pc = "done"
    /\ ~refreshes'[i].overlapped
\* the handles of a subs entry
HandlesOf(s) == {s.ch, s.ue, s.ueTransport} \ {0}

\* what every completed refresh has done but the priming of new addresses: the subs
\* table has the canonical addresses; those it found and that are no longer listed went
\* through the removal; those newly listed went through subscribeAddress; those in both
\* have the entry they had and went through neither
Reconciled(r) ==
    /\ DOMAIN subs' = Canonical
    /\ \A a \in (DOMAIN r.before) \ Canonical : a \in r.removed
    /\ \A a \in Canonical \ DOMAIN r.before : a \in r.attempted
    /\ \A a \in Canonical \cap DOMAIN r.before :
            subs'[a] = r.before[a] /\ a \notin r.attempted /\ a \notin r.removed
\* the step of refresh i that ends the removal of an address deletes its entry and its
\* snapshot; the step that primes an address is a primeFromHttp call for it
RemovalAndPriming(i) ==
    /\ \A a \in refreshes'[i].removed \ refreshes[i].removed :
            ~Has(subs', a) /\ ~Has(snapshots', a)
    /\ \A a \in refreshes'[i].primed \ refreshes[i].primed :
            IsPrimeCall /\ primeCall'.addr = a /\ Has(subs', a)

\* C12 as claimed: when a refresh that no other refresh overlaps completes, the subscribed
\* addresses are the canonical list (lowercased): every address no longer listed has been
\* unsubscribed and its snapshot dropped, every newly listed address has been subscribed
\* and a priming triggered for it, the addresses in both are untouched.
C12_AsClaimed ==
    [][\A i \in DOMAIN refreshes :
         /\ RemovalAndPriming(i)
         /\ Completes(i) =>
                /\ Reconciled(refreshes'[i])
                /\ \A a \in Canonical \ DOMAIN refreshes'[i].before :
                        a \in refreshes'[i].primed]_vars
\* C12 amended: the same, with a priming triggered for a newly listed address unless a
\* snapshot of it is already stored when its subscription is recorded.
C12_RefreshReconciles ==
    [][\A i \in DOMAIN refreshes :
         /\ RemovalAndPriming(i)
         /\ \A a \in refreshes'[i].attempted :
                (Running(refreshes[i]) /\ refreshes[i].addr = a
                    /\ Has(subs', a) /\ ~Has(subs, a)) =>
                    (a \in refreshes'[i].primed <=> ~Has(snapshots, a))
         /\ Completes(i) =>
                /\ Reconciled(refreshes'[i])
                /\ \A a \in Canonical \ DOMAIN refreshes'[i].before :
                        a \in refreshes'[i].primed \/ Has(snapshots', a)]_vars
\* the second refresh removed one address, and subscribed and primed the other
C12_Witness ==
    /\ Len(refreshes) = 2
    /\ refreshes[2].pc = "done"
    /\ DOMAIN refreshes[2].before = {"0xa"}
    /\ refreshes[2].removed = {"0xa"}
    /\ refreshes[2].attempted = {"0xb"}
    /\ refreshes[2].primed = {"0xb"}
    /\ DOMAIN subs = {"0xb"}
    /\ ~Has(snapshots, "0xa")

\* C13: a subscription attempt that fails is not re-attempted inline, and it is retried
\* by the next refresh as long as the address is still in the canonical list.
\* subscribeAddress records the address in subs also when its attempts failed, and
\* refresh only subscribes addresses without entry: no refresh retries it.
C13_FailedRetried ==
    /\ [][\A i \in DOMAIN refreshes :
            refreshes[i].pc = "sub_ch" => refreshes'[i].pc \in {"sub_ch", "sub_ue"}]_vars
    /\ [][\A i \in DOMAIN refreshes :
            Completes(i) =>
                \A a \in Canonical \cap DOMAIN refreshes'[i].before :
                    (refreshes'[i].before[a].ch = 0 \/ refreshes'[i].before[a].ue = 0)
                        => a \in refreshes'[i].attempted]_vars

\* C14: stop() attempts the teardown of every subscription of every subscribed address
\* (positions, fills, transport of the fills); a step that throws is swallowed and does
\* not prevent the remaining steps; stop() does not fail; when it completes no address
\* is subscribed.
C14_StopTearsDown ==
    /\ [](stopRun.pc \in {"idle", "ch", "ue", "tr", "done"})
    /\ [](stopRun.pc = "done" => subs = EmptyMap)
    /\ [][(stopRun.pc # "done" /\ stopRun'.pc = "done") =>
            \A a \in DOMAIN stopRun'.before :
                HandlesOf(stopRun'.before[a]) \subseteq stopRun'.called]_vars
    /\ [][(stopRun.pc \in {"ch", "ue", "tr"} /\ stopRun'.threw /\ ~stopRun.threw) =>
            stopRun'.pc = StepAfter(stopRun.pc, "ok") \/ stopRun'.pc \in {"ch", "done"}]_vars
\* stop() completed on two subscribed addresses although one of its calls threw
C14_Witness ==
    /\ stopRun.pc = "done"
    /\ stopRun.threw
    /\ DOMAIN stopRun.before = {"0xa", "0xb"}
    /\ Cardinality(stopRun.called) = 6
    /\ subs = EmptyMap

\* C15: when one unsubscribe is slow or never completes, stop() (and the removal step of
\* refresh) still tears down every other subscription: a hung unsubscribe of one address
\* does not block the others. Both loops await one call after the other: once a call
\* never returns, no further step of the loop can run and the addresses after it in the
\* loop keep their subscriptions.
C15_HungDoesNotBlock ==
    /\ (stopRun.hung /\ ~ENABLED SubsStopStep) =>
            \A a \in (DOMAIN stopRun.before) \ {stopRun.addr} :
                HandlesOf(stopRun.before[a]) \subseteq stopRun.called
    /\ \A i \in DOMAIN refreshes :
            (refreshes[i].hung /\ ~ENABLED RefreshRemoveStep(i, "ok")) =>
                \A a \in Removed(refreshes[i].current, refreshes[i].addrs) \ {refreshes[i].addr} :
                    a \in refreshes[i].removed

----------------------------------------------------------------------------
(* The operator wipe (src/src/server.ts): POST /api/clear-all-trades, and the    *)
(* first two statements of POST /api/clear-and-backfill-all                      *)

\* wipes in SpecWipe
MaxWipes == 1
\* events appended per sequencing epoch in SpecWipe
MaxWipeSeq == 3

\* the handler up to its await: deleteAllTrades() is issued
ClearAllTrades ==
    /\ wipe.pc = "idle"
    /\ wipe' = [wipe EXCEPT !.pc = "deleting"]
    /\ UNCHANGED <<queueVars, queueObs, hist, trackerVars, wsVars, ueRuns, merge, rate,
                   sweeps, feedVars>>

\* the continuation after await deleteAllTrades(), which resolves also when the deletion
\* failed (persist.ts catches and returns 0): changes.reset(), then the response.
\* History: the consumers connected at the reset, with their cursors
ClearAllTradesDeleted ==
    /\ wipe.pc = "deleting"
    /\ ResetCall
    /\ wipe' = [pc |-> "idle", n |-> wipe.n + 1,
                cursors |-> [id \in ClientIds |-> ClientOf(id).lastSeq]]
    /\ UNCHANGED <<trackerVars, wsVars, ueRuns, merge, rate, sweeps, feedVars>>

----------------------------------------------------------------------------
(* SpecWipe: the distributor, the tracker's appends and the operator wipe *)

WipeConnect == Len(wsObs) < MaxClients /\ Connect
WipeClose == \E id \in ClientIds : OnClose(id)
WipeTick == RunBroadcast(0)
WipePush == \E evt \in TestEvents : latestSeq(nextSeq) < MaxWipeSeq /\ Push(evt)
WipeRequest == wipe.n < MaxWipes /\ ClearAllTrades
WipeDeleted == ClearAllTradesDeleted

NextWipe ==
    \/ WipeConnect
    \/ WipeClose
    \/ WipeTick
    \/ WipePush
    \/ WipeRequest
    \/ WipeDeleted

SpecWipe == InitWs /\ [][NextWipe]_vars

----------------------------------------------------------------------------
(* Claims about the wipe, checked under SpecWipe *)

\* the consumers that were connected at the last reset and still are
AcrossWipe == {id \in ClientIds : wipe.n > 0 /\ id \in DOMAIN wipe.cursors}

\* C21: a consumer that stays connected across a wipe is delivered every event appended
\* after the reset, starting at sequence 1 (the first tick that finds events after the
\* reset sends it the retained events from the oldest on), and after the reset its cursor
\* never refers to a sequence number of before the wipe (it is at most latestSeq()).
\* The handlers reset the queue only: the cursors of the consumers keep their values.
C21_WipeResetsCursors ==
    /\ [](\A id \in AcrossWipe : ClientOf(id).lastSeq <= latestSeq(nextSeq))
    /\ [][IsTick =>
            \A id \in AcrossWipe :
                (ClientOf(id).lastSeq = wipe.cursors[id] /\ buffer # <<>>) =>
                    /\ id \in DOMAIN wsCall'.frames
                    /\ wsCall'.frames[id].events = FirstN(buffer, BroadcastLimit)]_vars

----------------------------------------------------------------------------
(* SpecFanout: the distributor with up to 27 consumers, which leave oldest first *)

\* connections accepted in SpecFanout (two more than the largest threshold, 25)
MaxFanout == 27

FanConnect == Len(wsObs) < MaxFanout /\ Connect
FanClose == clients # <<>> /\ OnClose(clients[1].id)
FanTick == RunBroadcast(0)

NextFanout == FanConnect \/ FanClose \/ FanTick

SpecFanout == InitWs /\ [][NextFanout]_vars

----------------------------------------------------------------------------
(* Claims about the tick interval, checked under SpecFanout *)

\* the delays of the claim
ClaimedDelay(count) == IF count <= 10 THEN 1000 ELSE IF count <= 25 THEN 500 ELSE 250

\* C22: the delay before the next tick is chosen from the number of connected consumers
\* when the tick is scheduled (at start-up and at the end of each tick): 1000 ms for at
\* most 10 consumers, 500 ms for 11 to 25, 250 ms for more; it never grows with the number
\* of consumers, and connections and disconnections between two ticks do not change it.
C22_AdaptiveInterval ==
    /\ [](\A m, n \in 0..MaxFanout : m <= n => Interval(m) >= Interval(n))
    /\ [](Len(wsObs) = 0 /\ wsCall.op = "none" => timer /\ broadcastInterval = ClaimedDelay(0))
    /\ [][IF IsTick
          THEN timer' /\ broadcastInterval' = ClaimedDelay(Len(clients'))
          ELSE broadcastInterval' = broadcastInterval]_vars
\* a tick with 26 consumers connected has scheduled the next one 250 ms later
C22_Witness ==
    /\ wsCall.op = "tick"
    /\ Len(clients) = 26
    /\ broadcastInterval = 250

----------------------------------------------------------------------------
(* RealtimeTracker: fills (onUserEvents) *)

\* fill batches handled in SpecFill
MaxBatches == 1

Abs(x) == IF x < 0 THEN -x ELSE x

\* /^btc$/i.test(String(coin))
IsBtc(coin) == coin \in {"BTC", "btc"}
\* f.side === 'B' ? 'buy' : 'sell'
SideOf(f) == IF f.side = "B" THEN "buy" ELSE "sell"
\* the coin is BTC and px, sz, startPosition are finite
ValidAnyCoin(f) == IsFinite(f.px) /\ IsFinite(f.sz) /\ IsFinite(f.startPosition)
Valid(f) ==
    IsBtc(f.coin) /\ IsFinite(f.px) /\ IsFinite(f.sz) /\ IsFinite(f.startPosition)

\* side === 'buy' ? +sz : -sz
Delta(side, sz) == IF side = "buy" THEN sz ELSE -sz
\* Math.abs(newPos) > Math.abs(startPosition) ? 'open' : (newPos === 0 ? 'close' : 'close')
EffectNotStrict(startPosition, newPos) ==
    IF Abs(newPos) >= Abs(startPosition) THEN "open" ELSE "close"
Effect(startPosition, newPos) ==
    IF Abs(newPos) > Abs(startPosition) THEN "open" ELSE "close"
\* sideFromSize(newPos) === 'flat' ? (delta > 0 ? 'long' : (delta < 0 ? 'short' : 'flat'))
\*                                : sideFromSize(newPos)
DirectionOfPosition(newPos, delta) == sideFromSize(newPos)
Direction(newPos, delta) ==
    IF sideFromSize(newPos) = "flat"
    THEN IF delta > 0 THEN "long" ELSE IF delta < 0 THEN "short" ELSE "flat"
    ELSE sideFromSize(newPos)
\* the action label
ActionLabel(startPosition, delta, newPos) ==
    IF startPosition = 0 THEN (IF delta > 0 THEN "Open Long" ELSE "Open Short")
    ELSE IF startPosition > 0
         THEN IF delta > 0 THEN "Increase Long"
              ELSE IF newPos = 0 THEN "Close Long" ELSE "Decrease Long"
    ELSE IF startPosition < 0
         THEN IF delta < 0 THEN "Increase Short"
              ELSE IF newPos = 0 THEN "Close Short" ELSE "Decrease Short"
    ELSE ""

\* the event pushed for a valid fill, had it no dbId
TradeEventNoId(addr, f, result) ==
    LET startPosition == f.startPosition.num
        delta == Delta(SideOf(f), f.sz.num)
    IN  [type |-> "trade", at |-> f.time, address |-> addr, side |-> SideOf(f),
         direction |-> Direction(startPosition + delta, delta),
         effect |-> Effect(startPosition, startPosition + delta),
         priceUsd |-> f.px.num, size |-> Abs(f.sz.num), startPosition |-> startPosition,
         action |-> ActionLabel(startPosition, delta, startPosition + delta),
         dbId |-> Null]

\* what insertTradeIfNew resolves to: a new row, the row of the same hash, a failure
InsertResults ==
    {[id |-> Num(7), inserted |-> TRUE], [id |-> Num(7), inserted |-> FALSE],
     [id |-> Null, inserted |-> FALSE]}

\* the event pushed for a valid fill (fee, feeToken, hash, realizedPnlUsd and symbol are
\* copied from the fill and left out); dbId: persistResult.id ?? undefined
TradeEvent(addr, f, result) ==
    LET side == SideOf(f)
        startPosition == f.startPosition.num
        delta == Delta(side, f.sz.num)
        newPos == startPosition + delta
    IN  [type |-> "trade", at |-> f.time, address |-> addr, side |-> side,
         direction |-> Direction(newPos, delta),
         effect |-> Effect(startPosition, newPos),
         priceUsd |-> f.px.num, size |-> Abs(f.sz.num), startPosition |-> startPosition,
         action |-> ActionLabel(startPosition, delta, newPos),
         dbId |-> result.id]

\* the first valid fill of the batch at or after position i; 0 when there is none
NextValid(fills, i) ==
    IF \E j \in i..Len(fills) : Valid(fills[j])
    THEN CHOOSE j \in i..Len(fills) :
            Valid(fills[j]) /\ \A k \in i..(j - 1) : ~Valid(fills[k])
    ELSE 0

\* an invocation of onUserEvents; i: the fill whose insertTradeIfNew is awaited;
\* pushed: history of the sequence numbers of its events; results: history of what its
\* insertTradeIfNew calls resolved to
NewRun(addr, fills) ==
    LET i == NextValid(fills, 1)
    IN  [addr |-> addr, fills |-> fills, i |-> i,
         pc |-> IF i = 0 THEN "done" ELSE "insert", touched |-> FALSE, pushed |-> <<>>,
         results |-> <<>>]

fillVars == <<snapshots, lastPrimeAt, now, done, subVars, wsVars, wipe, merge, rate,
             sweeps, feedVars>>

\* onUserEvents(addr, { fills }) up to its first await: the fills before the first valid
\* one are skipped and insertTradeIfNew is called for that one; with no valid fill the
\* handler returns (touched is false)
UserEvents(addr, fills) ==
    /\ ueRuns' = Append(ueRuns, NewRun(addr, fills))
    /\ writes' = IF NextValid(fills, 1) = 0 THEN writes ELSE writes + 1
    /\ UNCHANGED <<queueVars, queueObs, hist, fillVars, primeInflight, tasks, primeCall,
                   primeRet>>

\* the continuation after await insertTradeIfNew(...) (which never rejects): the event is
\* pushed; then the next valid fill is persisted, or, after the last one, the handler
\* calls primeFromHttp(addr, { force: false, minIntervalMs: 2000 }) and returns
TradeInserted(r, result) ==
    LET run == ueRuns[r]
        after == push(buffer, capacity, nextSeq, TradeEvent(run.addr, run.fills[run.i], result))
        j == NextValid(run.fills, run.i + 1)
    IN  /\ run.pc = "insert"
        /\ buffer' = after.buffer
        /\ nextSeq' = after.nextSeq
        /\ hist' = Append(hist, after.withSeq)
        /\ ueRuns' = [ueRuns EXCEPT ![r] =
                         [run EXCEPT !.i = j, !.touched = TRUE,
                                     !.pc = IF j = 0 THEN "done" ELSE "insert",
                                     !.pushed = Append(run.pushed, after.withSeq.seq),
                                     !.results = Append(run.results, result)]]
        /\ IF j = 0
           THEN /\ PrimeFromHttpCall(run.addr, FALSE, FillPrimeIntervalMs)
                /\ UNCHANGED writes
           ELSE /\ writes' = writes + 1
                /\ UNCHANGED <<primeInflight, tasks, primeCall, primeRet>>
        /\ UNCHANGED <<configured, capacity, queueObs, fillVars>>

----------------------------------------------------------------------------
(* SpecFill: a tracker that receives batches of one fill *)

\* fills of the upstream channel: coin, price, size, side ('B' buy, 'A' sell), start
\* position, time
StartPositions == -2..2
Sizes == 0..4
RawFills ==
    {[coin |-> "BTC", px |-> Num(100), sz |-> Num(sz), side |-> side,
      startPosition |-> Num(p), time |-> StartNow] :
        sz \in Sizes, side \in {"A", "B"}, p \in StartPositions}
    \cup {[coin |-> "ETH", px |-> Num(100), sz |-> Num(1), side |-> "B",
           startPosition |-> Num(0), time |-> StartNow],
          [coin |-> "BTC", px |-> NaN, sz |-> Num(1), side |-> "B",
           startPosition |-> Num(0), time |-> StartNow],
          [coin |-> "BTC", px |-> Num(100), sz |-> NaN, side |-> "B",
           startPosition |-> Num(0), time |-> StartNow],
          [coin |-> "btc", px |-> Num(100), sz |-> Num(1), side |-> "A",
           startPosition |-> NaN, time |-> StartNow]}

FillBatch ==
    \E addr \in Addrs, f \in RawFills :
        Len(ueRuns) < MaxBatches /\ UserEvents(addr, <<f>>)
FillInserted == \E r \in DOMAIN ueRuns, result \in InsertResults : TradeInserted(r, result)

NextFill == FillBatch \/ FillInserted

SpecFill == InitSubs /\ [][NextFill]_vars

----------------------------------------------------------------------------
(* Claims about the classification of fills, checked under SpecFill *)

\* the step is the continuation of invocation r that pushes the event of a fill
Processes(r) == ueRuns[r].pc = "insert" /\ ueRuns'[r].pushed # ueRuns[r].pushed
\* that fill: its start position, whether it is a buy, its signed delta, the new position
FillOf(r) == ueRuns[r].fills[ueRuns[r].i]
StartOf(r) == FillOf(r).startPosition.num
IsBuy(r) == FillOf(r).side = "B"
DeltaOf(r) == IF IsBuy(r) THEN FillOf(r).sz.num ELSE -FillOf(r).sz.num
NewPosOf(r) == StartOf(r) + DeltaOf(r)
\* the event the step appends
Appended == hist'[Len(hist')]
\* the last event appended
LastEvent == hist[Len(hist)]

\* C23: for every processed fill with start position p and signed delta d, effect is
\* 'open' exactly when |p + d| > |p| and 'close' otherwise, also when the magnitude is
\* unchanged (a flip of identical size, a fill of size zero).
C23_Effect ==
    [][\A r \in DOMAIN ueRuns :
         Processes(r) =>
            /\ Len(hist') = Len(hist) + 1
            /\ Appended.effect \in {"open", "close"}
            /\ Appended.effect = "open" <=> Abs(NewPosOf(r)) > Abs(StartOf(r))
            /\ Abs(NewPosOf(r)) = Abs(StartOf(r)) => Appended.effect = "close"]_vars
\* a sell of 2 from a long of 1 (a flip to a short of 1) was processed as a close
C23_Witness ==
    /\ hist # <<>>
    /\ LastEvent.type = "trade"
    /\ LastEvent.startPosition = 1 /\ LastEvent.side = "sell" /\ LastEvent.size = 2
    /\ LastEvent.effect = "close"

\* the label of the decision table of the claim
ClaimedLabel(p, buy, newPos) ==
    IF p = 0 THEN (IF buy THEN "Open Long" ELSE "Open Short")
    ELSE IF p > 0
         THEN IF buy THEN "Increase Long"
              ELSE IF newPos = 0 THEN "Close Long" ELSE "Decrease Long"
         ELSE IF ~buy THEN "Increase Short"
              ELSE IF newPos = 0 THEN "Close Short" ELSE "Decrease Short"

\* C24: the action label of every processed fill follows the decision table: from flat,
\* Open Long for a buy and Open Short for a sell; from long, Increase Long for a buy,
\* Close Long for a sell landing on zero, Decrease Long for a sell landing elsewhere; from
\* short, Increase Short for a sell, Close Short for a buy landing on zero, Decrease Short
\* for a buy landing elsewhere. The code keys the table on delta > 0 / delta < 0, so a buy
\* of size zero is labelled as a sell from flat or long.
C24_ActionLabel ==
    [][\A r \in DOMAIN ueRuns :
         Processes(r) =>
            Appended.action = ClaimedLabel(StartOf(r), IsBuy(r), NewPosOf(r))]_vars

\* C25: the direction of every processed fill is the sign of the new position; when the
\* new position is zero it is the sign of the delta: long for a buy, short for a sell,
\* flat only when the delta is zero.
C25_Direction ==
    [][\A r \in DOMAIN ueRuns :
         Processes(r) =>
            LET d == Appended.direction
            IN  /\ NewPosOf(r) > 0 => d = "long"
                /\ NewPosOf(r) < 0 => d = "short"
                /\ (NewPosOf(r) = 0 /\ DeltaOf(r) # 0) =>
                        d = (IF IsBuy(r) THEN "long" ELSE "short")
                /\ d = "flat" <=> (NewPosOf(r) = 0 /\ DeltaOf(r) = 0)]_vars
\* a sell of 2 from a long of 2 (landing on zero) was processed with direction short
C25_Witness ==
    /\ hist # <<>>
    /\ LastEvent.type = "trade"
    /\ LastEvent.startPosition = 2 /\ LastEvent.side = "sell" /\ LastEvent.size = 2
    /\ LastEvent.direction = "short"

----------------------------------------------------------------------------
(* The pagination helpers of src/src/queue.ts: tradeKey, mergeTrades, canLoadMore *)

\* rows per argument of mergeTrades in SpecMerge
MaxRows == 2

\* trade rows (action, startPosition and closedPnl are not read by the helpers): two rows
\* of one time, two rows whose tx differ in case only, a row without id that has the
\* fallback field hash, a row with neither (id: undefined)
Row(id, time, tx, hash) ==
    [id |-> id, time |-> time, address |-> "0xa", size |-> 1, price |-> 100,
     tx |-> tx, hash |-> hash]
Rows ==
    {Row(Num(3), 3, Null, Null), Row(Num(2), 3, Null, Null),
     Row(Num(1), 1, [str |-> "0xA"], Null), Row(Num(5), 1, [str |-> "0xa"], Null),
     Row(Null, 2, Null, [str |-> "0xa"]), Row(Null, 2, Null, Null)}

\* the sequences of at most n elements of S
SeqsUpTo(S, n) == UNION {[1..k -> S] : k \in 0..n}

\* tradeKey(t): tx, else hash (both lowercased, same prefix), else id, else the composite
tradeKeyById(t) ==
    IF t.id # Null THEN [id |-> t.id.num]
    ELSE [time |-> t.time, addr |-> t.address, size |-> t.size, price |-> t.price]
tradeKey(t) ==
    IF t.tx # Null THEN [tx |-> Lower(t.tx.str)]
    ELSE IF t.hash # Null THEN [tx |-> Lower(t.hash.str)]
    ELSE IF t.id # Null THEN [id |-> t.id.num]
    ELSE [time |-> t.time, addr |-> t.address, size |-> t.size, price |-> t.price]

\* the loop over incoming: the rows whose key is not in seen, each key once
RECURSIVE Additions(_, _)
Additions(seen, incoming) ==
    IF incoming = <<>> THEN <<>>
    ELSE LET key == tradeKey(Head(incoming))
         IN  IF key \in seen THEN Additions(seen, Tail(incoming))
             ELSE <<Head(incoming)>> \o Additions(seen \cup {key}, Tail(incoming))

\* the comparator of merged.sort is negative: a is placed before b. b.id - a.id is NaN
\* when an id is undefined, which sort takes as 0
SortsBefore(a, b) ==
    \/ a.time > b.time
    \/ a.time = b.time /\ a.id # Null /\ b.id # Null /\ a.id.num > b.id.num
\* Array.prototype.sort (stable) with that comparator
InsertSorted(sorted, x) ==
    LET later == {i \in DOMAIN sorted : SortsBefore(x, sorted[i])}
        at == IF later = {} THEN Len(sorted) + 1
              ELSE CHOOSE i \in later : \A j \in later : i <= j
    IN  SubSeq(sorted, 1, at - 1) \o <<x>> \o SubSeq(sorted, at, Len(sorted))
RECURSIVE Sort(_)
Sort(rows) ==
    IF rows = <<>> THEN <<>>
    ELSE InsertSorted(Sort(SubSeq(rows, 1, Len(rows) - 1)), rows[Len(rows)])

\* mergeTrades(existing, incoming)
ConcatTrades(existing, incoming) == Sort(existing \o incoming)
mergeTrades(existing, incoming) ==
    LET seen == {tradeKey(existing[i]) : i \in DOMAIN existing}
        additions == Additions(seen, incoming)
    IN  IF additions = <<>> THEN existing ELSE Sort(existing \o additions)

\* state the helpers do not touch
serverVars ==
    <<queueVars, queueObs, hist, trackerVars, wsVars, wipe, ueRuns, sweeps, feedVars>>

\* merged = mergeTrades(existing, incoming); the arguments are not assigned to
MergeTrades ==
    /\ merge.calls = 0
    /\ merge' = [merge EXCEPT !.calls = 1,
                              !.result = mergeTrades(merge.existing, merge.incoming)]
    /\ UNCHANGED <<serverVars, rate>>

\* mergeTrades(merged, incoming): the same incoming rows merged into the result
MergeTradesAgain ==
    /\ merge.calls = 1
    /\ merge' = [merge EXCEPT !.calls = 2,
                              !.again = mergeTrades(merge.result, merge.incoming)]
    /\ UNCHANGED <<serverVars, rate>>

----------------------------------------------------------------------------
(* SpecMerge: mergeTrades on all pairs of short lists of rows *)

InitMerge ==
    /\ Construct(ServerCapacity) /\ NewTracker /\ NoDistributor /\ Quiet
    /\ rate = NewRate(0, 0)
    /\ \E existing \in SeqsUpTo(Rows, MaxRows), incoming \in SeqsUpTo(Rows, MaxRows) :
            merge = NotMerged(existing, incoming)

NextMerge == MergeTrades \/ MergeTradesAgain

SpecMerge == InitMerge /\ [][NextMerge]_vars

----------------------------------------------------------------------------
(* Claims about mergeTrades, checked under SpecMerge *)

\* the identity key of a row as the claims describe it: the transaction hash without
\* regard to case, else the fallback field hash, else the id, else (time, address,
\* size, price)
KeyOf(t) ==
    IF t.tx # Null THEN <<"hash", Lower(t.tx.str)>>
    ELSE IF t.hash # Null THEN <<"hash", Lower(t.hash.str)>>
    ELSE IF t.id # Null THEN <<"id", ToString(t.id.num)>>
    ELSE <<"composite", ToString(<<t.time, t.address, t.size, t.price>>)>>
\* how often a row occurs in a list
Count(rows, t) == Cardinality({i \in DOMAIN rows : rows[i] = t})
\* the positions of incoming whose key occurs neither in existing nor earlier in incoming
Fresh(existing, incoming) ==
    {j \in DOMAIN incoming :
        /\ \A i \in DOMAIN existing : KeyOf(existing[i]) # KeyOf(incoming[j])
        /\ \A i \in 1..(j - 1) : KeyOf(incoming[i]) # KeyOf(incoming[j])}
\* the list is ordered newest first
NewestFirst(rows) == \A i, j \in DOMAIN rows : i < j => rows[i].time >= rows[j].time
\* the list is sorted descending by time and, among rows of equal time, by id
SortedDesc(rows) ==
    \A i, j \in DOMAIN rows :
        i < j =>
            \/ rows[i].time > rows[j].time
            \/ /\ rows[i].time = rows[j].time
               /\ (rows[i].id # Null /\ rows[j].id # Null) => rows[i].id.num >= rows[j].id.num

\* C26: mergeTrades is idempotent: merging the same incoming rows into the result of a
\* merge returns that result; merging no rows returns the existing rows; the arguments
\* are never modified.
C26_Idempotent ==
    /\ [][(merge.calls = 1 /\ merge'.calls = 2) => merge'.again = merge.result]_vars
    /\ []((merge.calls >= 1 /\ merge.incoming = <<>>) => merge.result = merge.existing)
    /\ [][merge'.existing = merge.existing /\ merge'.incoming = merge.incoming]_vars
\* a merge that added a row and dropped another was repeated with the same result
C26_Witness ==
    /\ merge.calls = 2
    /\ merge.again = merge.result
    /\ Len(merge.result) > Len(merge.existing)
    /\ Len(merge.result) < Len(merge.existing) + Len(merge.incoming)

C28_MergeSorted ==
    (merge.calls >= 1 /\ NewestFirst(merge.existing) /\ NewestFirst(merge.incoming)) =>
        SortedDesc(merge.result)

----------------------------------------------------------------------------
(* canLoadMore (src/src/queue.ts) *)

\* calls of canLoadMore in SpecRate
MaxLoads == 4

\* if (now - state.lastAt < minIntervalMs) return false
AlwaysAllowed(lastAt, minIntervalMs, t) == TRUE
Allowed(lastAt, minIntervalMs, t) == ~(t - lastAt < minIntervalMs)

\* canLoadMore(state, minIntervalMs)
CanLoadMore ==
    LET ok == Allowed(rate.lastAt, rate.interval, now)
    IN  /\ rate' = [rate EXCEPT !.lastAt = IF ok THEN now ELSE @,
                                !.calls = @ + 1,
                                !.ret = ok,
                                !.at = now,
                                !.trues = IF ok THEN Append(@, now) ELSE @]
        /\ UNCHANGED <<serverVars, merge>>

----------------------------------------------------------------------------
(* SpecRate: canLoadMore on a RateState that starts at { lastAt: 0 }, and time *)

\* minimum intervals: none, the 200 ms of the test, the 2 s of the fill handler
RateIntervals == {0, 200, FillPrimeIntervalMs}

InitRate ==
    /\ Construct(ServerCapacity) /\ NewTracker /\ NoDistributor /\ Quiet
    /\ merge = NotMerged(<<>>, <<>>)
    /\ \E interval \in RateIntervals : rate = NewRate(0, interval)

RateLoad == rate.calls < MaxLoads /\ CanLoadMore
RateTick == now < StartNow + MaxTicks * TickMs /\ Tick

NextRate == RateLoad \/ RateTick

SpecRate == InitRate /\ [][NextRate]_vars

----------------------------------------------------------------------------
(* Claims about canLoadMore, checked under SpecRate *)

\* the step is a call of canLoadMore
IsLoad == rate'.calls = rate.calls + 1
\* the call returns true and records the current time exactly when at least the interval
\* has elapsed since the recorded time; otherwise it returns false and changes nothing
LoadRule ==
    IsLoad =>
        IF now - rate.lastAt >= rate.interval
        THEN rate'.ret /\ rate'.lastAt = now
        ELSE ~rate'.ret /\ rate'.lastAt = rate.lastAt
\* the times of two calls that returned true are at least the interval apart
TruesApart ==
    \A i, j \in DOMAIN rate.trues :
        i < j => rate.trues[j] - rate.trues[i] >= rate.interval
\* the step is a call right after a call that returned true, with no time in between
ImmediateSecond == IsLoad /\ rate.calls >= 1 /\ rate.ret /\ now = rate.at

\* C29 as claimed: the rule above; hence true on the first call, false on an immediate
\* second call, true again once the interval has elapsed, and two calls that returned
\* true are at least the interval apart. With an interval of 0 an immediate second call
\* returns true.
C29_AsClaimed ==
    /\ [][LoadRule]_vars
    /\ [][(IsLoad /\ rate.calls = 0) => rate'.ret]_vars
    /\ [][ImmediateSecond => ~rate'.ret]_vars
    /\ [][(IsLoad /\ rate.ret /\ now - rate.at >= rate.interval) => rate'.ret]_vars
    /\ []TruesApart
\* C29 amended: the same, with the immediate second call false for a positive interval.
C29_RateLimit ==
    /\ [][LoadRule]_vars
    /\ [][(IsLoad /\ rate.calls = 0) => rate'.ret]_vars
    /\ [][(ImmediateSecond /\ rate.interval > 0) => ~rate'.ret]_vars
    /\ [][(IsLoad /\ rate.ret /\ now - rate.at >= rate.interval) => rate'.ret]_vars
    /\ []TruesApart
\* with an interval of 2 s: true on the first call, false on the second made at once,
\* false one second later, true two seconds later
C29_Witness ==
    /\ rate.interval = FillPrimeIntervalMs
    /\ rate.calls = 4
    /\ rate.ret
    /\ rate.trues = <<StartNow, StartNow + 2 * TickMs>>

----------------------------------------------------------------------------
(* RealtimeTracker: the freshness sweep (ensureFreshSnapshots) *)

\* sweeps in SpecSweep, and calls of primeFromHttp from outside the sweep
MaxSweeps == 1
MaxSweepCalls == 1

\* ensureFreshSnapshots(maxAgeMs = 60000)
DefaultMaxAgeMs == 60000

\* the addresses of a set in the order the loops visit them
InOrder(S) == SelectSeq(AddrOrder, LAMBDA a : a \in S)

\* !snap || !Number.isFinite(updatedMs) || now - updatedMs > maxAgeMs (updatedAt is always
\* the ISO string of a date)
StaleIfMissing(snaps, addr, t, maxAgeMs) == ~Has(snaps, addr)
Stale(snaps, addr, t, maxAgeMs) ==
    ~Has(snaps, addr) \/ t - snaps[addr].updatedAt > maxAgeMs

\* tasks.push(this.primeFromHttp(addr, { force: true })) for the addresses of the list,
\* one after the other with no await: the tracker after the calls and what they returned
RECURSIVE ForcePrimes(_, _)
ForcePrimes(st, addrs) ==
    IF addrs = <<>> THEN [st |-> st, rets |-> <<>>]
    ELSE LET one == primeFromHttp(st, Head(addrs), TRUE, 0)
             rest == ForcePrimes(one, Tail(addrs))
         IN  [st |-> rest.st, rets |-> <<one.primeRet>> \o rest.rets]

\* an invocation of ensureFreshSnapshots awaiting getAddresses(); later: the time and
\* list it read, the addresses it primed, the promises it waits for, how it ended
NewSweep(maxAgeMs) ==
    [pc |-> "list", maxAgeMs |-> maxAgeMs, at |-> 0, addrs |-> {}, primed |-> <<>>,
     rets |-> <<>>, listFailed |-> FALSE, outcome |-> "pending"]

sweepRest ==
    <<queueVars, queueObs, hist, wsVars, snapshots, lastPrimeAt, now, done, writes, subVars,
      wipe, ueRuns, merge, rate, feedVars>>

\* ensureFreshSnapshots(maxAgeMs) up to await this.getAddresses()
EnsureFreshSnapshots(maxAgeMs) ==
    /\ sweeps' = Append(sweeps, NewSweep(maxAgeMs))
    /\ UNCHANGED <<sweepRest, tasks, primeInflight, primeCall, primeRet>>

\* getAddresses() rejected: the catch swallows it and the sweep resolves
SweepListFails(i) ==
    /\ sweeps[i].pc = "list"
    /\ sweeps' = [sweeps EXCEPT ![i].pc = "done", ![i].listFailed = TRUE,
                                ![i].outcome = "resolved"]
    /\ UNCHANGED <<sweepRest, tasks, primeInflight, primeCall, primeRet>>

\* getAddresses() resolved: the loop primes the stale addresses; then
\* await Promise.allSettled(tasks) when there is one, or the return
SweepListed(i) ==
    LET addrs == {Lower(a) : a \in listed}
        stale == InOrder({a \in addrs : Stale(snapshots, a, now, sweeps[i].maxAgeMs)})
        after == ForcePrimes(PrimeState, stale)
    IN  /\ sweeps[i].pc = "list"
        /\ PrimeStateBecomes(after.st)
        /\ sweeps' = [sweeps EXCEPT ![i] =
                         [@ EXCEPT !.pc = IF stale = <<>> THEN "done" ELSE "wait",
                                   !.at = now, !.addrs = addrs, !.primed = stale,
                                   !.rets = after.rets,
                                   !.outcome = IF stale = <<>> THEN "resolved"
                                                                ELSE "pending"]]
        /\ UNCHANGED sweepRest

\* the promise has settled (fulfilled or rejected)
Settled(p) == p.kind = "resolved" \/ tasks[p.task].state # "pending"

\* Promise.allSettled(tasks) resolved: the sweep returns
SweepSettled(i) ==
    /\ sweeps[i].pc = "wait"
    /\ \A k \in DOMAIN sweeps[i].rets : Settled(sweeps[i].rets[k])
    /\ sweeps' = [sweeps EXCEPT ![i].pc = "done", ![i].outcome = "resolved"]
    /\ UNCHANGED <<sweepRest, tasks, primeInflight, primeCall, primeRet>>

----------------------------------------------------------------------------
(* SpecSweep: a tracker whose list changes, that is primed from outside, whose    *)
(* pulls succeed or fail, and that is swept while time passes                     *)

\* thresholds of the sweep: one step of the clock, and the default
MaxAges == {TickMs, DefaultMaxAgeMs}

SweepListChange == \E to \in SUBSET RawAddrs : sweeps = <<>> /\ ListChange(to)
SweepPrimeCalled ==
    \E addr \in Addrs :
        primeCall.n < MaxSweepCalls /\ sweeps = <<>> /\ PrimeFromHttp(addr, TRUE, 0)
SweepPullSucceeds ==
    \E t \in DOMAIN tasks, raw \in LongPositions, mark \in MarkPrices : PullSucceeds(t, raw, mark)
SweepPullFails == \E t \in DOMAIN tasks : PullFails(t)
SweepTick == now < StartNow + MaxTicks * TickMs /\ Tick
SweepStart == \E maxAgeMs \in MaxAges : Len(sweeps) < MaxSweeps /\ EnsureFreshSnapshots(maxAgeMs)
SweepFails == \E i \in DOMAIN sweeps : SweepListFails(i)
SweepLists == \E i \in DOMAIN sweeps : SweepListed(i)
SweepReturns == \E i \in DOMAIN sweeps : SweepSettled(i)

NextSweep ==
    \/ SweepListChange
    \/ SweepPrimeCalled
    \/ SweepPullSucceeds
    \/ SweepPullFails
    \/ SweepTick
    \/ SweepStart
    \/ SweepFails
    \/ SweepLists
    \/ SweepReturns

SpecSweep == InitSubs /\ [][NextSweep]_vars

----------------------------------------------------------------------------
(* Claims about the freshness sweep, checked under SpecSweep *)

\* the step is the one in which sweep i reads the list and runs its loop
SweepReads(i) == sweeps[i].pc = "list" /\ ~sweeps'[i].listFailed /\ sweeps'[i].pc # "list"
\* the tracked addresses that have no snapshot or one older than the threshold of sweep i
StaleNow(i) ==
    {a \in {Lower(x) : x \in listed} :
        ~Has(snapshots, a) \/ now - snapshots[a].updatedAt > sweeps[i].maxAgeMs}
\* the elements of a sequence
Range(seq) == {seq[k] : k \in DOMAIN seq}
\* the pulls of the sweep that are still in flight
Unsettled(sw) == {k \in DOMAIN sw.rets : tasks[sw.rets[k].task].state = "pending"}

\* C30: ensureFreshSnapshots(maxAge) starts a forced priming for exactly the tracked
\* addresses whose snapshot is missing or older than maxAge (one primeFromHttp call each,
\* after which a pull of the address is in flight; none for the others), starts all of
\* them in the step in which it reads the list, before it waits for any, returns once
\* every one of them has settled and not before, and resolves whether pulls fail or the
\* list cannot be read (in which case it primes nothing).
C30_FreshnessSweep ==
    /\ [][\A i \in DOMAIN sweeps :
            SweepReads(i) =>
                /\ Range(sweeps'[i].primed) = StaleNow(i)
                /\ Len(sweeps'[i].primed) = Cardinality(StaleNow(i))
                /\ Len(sweeps'[i].rets) = Cardinality(StaleNow(i))
                /\ primeCall'.n = primeCall.n + Cardinality(StaleNow(i))
                /\ StaleNow(i) # {} => primeCall'.force
                /\ \A a \in StaleNow(i) :
                        /\ Has(primeInflight', a)
                        /\ tasks'[primeInflight'[a]].pull = "pending"
                        /\ \E k \in DOMAIN sweeps'[i].rets :
                                sweeps'[i].rets[k].task = primeInflight'[a]
                /\ \A a \in Addrs \ StaleNow(i) :
                        /\ Has(primeInflight', a) <=> Has(primeInflight, a)
                        /\ \A t \in DOMAIN tasks' \ DOMAIN tasks : tasks'[t].addr # a
                /\ sweeps'[i].pc = (IF StaleNow(i) = {} THEN "done" ELSE "wait")]_vars
    /\ [][\A i \in DOMAIN sweeps :
            (sweeps[i].pc = "wait" /\ sweeps'[i].pc = "done") =>
                Unsettled(sweeps[i]) = {}]_vars
    /\ [][\A i \in DOMAIN sweeps :
            (sweeps[i].pc = "list" /\ sweeps'[i].listFailed) =>
                /\ sweeps'[i].pc = "done"
                /\ primeCall' = primeCall /\ tasks' = tasks]_vars
    /\ [](\A i \in DOMAIN sweeps :
            /\ sweeps[i].pc = "done" <=> sweeps[i].outcome = "resolved"
            /\ (sweeps[i].pc = "wait" /\ Unsettled(sweeps[i]) = {}) => ENABLED SweepSettled(i))
\* a sweep with a threshold of one second found one snapshot two seconds old and none
\* for the other address, primed both, and returned after one pull succeeded and the
\* other failed
C30_Witness ==
    /\ Len(sweeps) = 1
    /\ sweeps[1].pc = "done"
    /\ sweeps[1].maxAgeMs = TickMs
    /\ sweeps[1].at = StartNow + 2 * TickMs
    /\ sweeps[1].primed = <<"0xa", "0xb">>
    /\ \E a \in Addrs : Has(done, a) /\ done[a].okAt = Num(StartNow)
    /\ \E k \in DOMAIN sweeps[1].rets : tasks[sweeps[1].rets[k].task].pull = "failed"
    /\ \E k \in DOMAIN sweeps[1].rets : tasks[sweeps[1].rets[k].task].pull = "ok"

----------------------------------------------------------------------------
(* RealtimeTracker: position notifications (onClearinghouse) *)

\* notifications in SpecPush
MaxMoves == 2

\* the positions the exchange has had for an address, oldest first; before the first one
\* on record the account has no BTC position
WasOf(addr) == IF Has(upstream.was, addr) THEN upstream.was[addr] ELSE <<>>
NoPosition == [szi |-> Num(0), entryPx |-> NaN, liquidationPx |-> NaN, leverage |-> NaN]
PositionAt(addr, v) == IF v = 0 THEN NoPosition ELSE WasOf(addr)[v]

\* const changed = !prev || prev.size !== snapshot.size || prev.entryPriceUsd !== ...
ChangedSizeOnly(snaps, addr, snapshot) ==
    ~Has(snaps, addr) \/ snaps[addr].data.size # snapshot.size
Changed(snaps, addr, snapshot) ==
    \/ ~Has(snaps, addr)
    \/ snaps[addr].data.size # snapshot.size
    \/ snaps[addr].data.entryPriceUsd # snapshot.entryPriceUsd
    \/ snaps[addr].data.liquidationPriceUsd # snapshot.liquidationPriceUsd
    \/ snaps[addr].data.leverage # snapshot.leverage

\* void insertEvent(...); void upsertCurrentPosition(...): the calls as issued
VoidCalls(addr) ==
    <<[kind |-> "insertEvent", addr |-> addr, state |-> "pending", promise |-> "pending"],
      [kind |-> "upsertCurrentPosition", addr |-> addr, state |-> "pending",
       promise |-> "pending"]>>

\* the exchange notifies the position raw of addr: onClearinghouse(addr, evt)
OnClearinghouse(addr, raw, mark) ==
    LET snapshot == ParseSnapshot(raw)
        after == push(buffer, capacity, nextSeq, PositionEvent(addr, snapshot, now, mark))
    IN  /\ upstream' = [upstream EXCEPT
                           !.was = Put(@, addr, Append(WasOf(addr), raw)),
                           !.notified = Put(@, addr, Len(WasOf(addr)) + 1)]
        /\ IF Changed(snapshots, addr, snapshot)
           THEN /\ snapshots' = Put(snapshots, addr, [data |-> snapshot, updatedAt |-> now])
                /\ buffer' = after.buffer
                /\ nextSeq' = after.nextSeq
                /\ hist' = Append(hist, after.withSeq)
                /\ writes' = writes + 2
                /\ db' = db \o VoidCalls(addr)
           ELSE UNCHANGED <<snapshots, buffer, nextSeq, hist, writes, db>>
        /\ UNCHANGED <<configured, capacity, queueObs, primeInflight, lastPrimeAt, tasks, now,
                       primeCall, primeRet, done, subVars, wsVars, wipe, ueRuns, merge, rate,
                       sweeps>>

\* how the promise of insertEvent / upsertCurrentPosition settles when getPool() or the
\* query failed: } catch (_e) { return null; } / { // ignore }
PersistenceRejects == "rejected"
AfterPersistenceFailure == "fulfilled"

\* insertEvent / upsertCurrentPosition: the query returned, or it failed
Persisted(k, ok) ==
    /\ db[k].state = "pending"
    /\ db' = [db EXCEPT ![k].state = IF ok THEN "done" ELSE "failed",
                        ![k].promise = IF ok THEN "fulfilled" ELSE AfterPersistenceFailure]
    /\ UNCHANGED <<queueVars, queueObs, hist, trackerVars, wsVars, wipe, ueRuns, merge, rate,
                   sweeps, upstream>>

----------------------------------------------------------------------------
(* SpecPush: a tracker that is notified of positions while time passes and its    *)
(* persistence calls succeed or fail                                             *)

\* BTC positions of the notifications: none, a long, the long with one field changed
\* (leverage, liquidation price, entry price, size), the long with an unusable size
PushPositions ==
    {NoPosition,
     [szi |-> Num(2), entryPx |-> Num(100), liquidationPx |-> Num(90), leverage |-> Num(5)],
     [szi |-> Num(2), entryPx |-> Num(100), liquidationPx |-> Num(90), leverage |-> Num(10)],
     [szi |-> Num(2), entryPx |-> Num(100), liquidationPx |-> Num(95), leverage |-> Num(5)],
     [szi |-> Num(2), entryPx |-> Num(105), liquidationPx |-> Num(90), leverage |-> Num(5)],
     [szi |-> Num(3), entryPx |-> Num(100), liquidationPx |-> Num(90), leverage |-> Num(5)],
     [szi |-> NaN, entryPx |-> Num(100), liquidationPx |-> Num(90), leverage |-> Num(5)]}
\* notifications delivered so far
Moves == LET n[S \in SUBSET Addrs] ==
                 IF S = {} THEN 0
                 ELSE LET a == CHOOSE x \in S : TRUE IN Len(WasOf(a)) + n[S \ {a}]
         IN  n[Addrs]

PushNotified ==
    \E addr \in Addrs, raw \in PushPositions, mark \in MarkPrices :
        Moves < MaxMoves /\ OnClearinghouse(addr, raw, mark)
PushPersisted == \E k \in DOMAIN db, ok \in BOOLEAN : Persisted(k, ok)
PushTick == now < StartNow + TickMs /\ Tick

NextPush == PushNotified \/ PushPersisted \/ PushTick

SpecPush == InitSubs /\ [][NextPush]_vars

----------------------------------------------------------------------------
(* Claims about position notifications, checked under SpecPush *)

\* the step is a notification for the address; the snapshot parsed from it
IsNotified(a) == Len(WasOf(a))' = Len(WasOf(a)) + 1
Notified(a) == ParseSnapshot(WasOf(a)[Len(WasOf(a))])
\* no snapshot is stored for the address, or one of its four fields differs
Differs(a, new) ==
    \/ ~Has(snapshots, a)
    \/ \E f \in {"size", "entryPriceUsd", "liquidationPriceUsd", "leverage"} :
            snapshots[a].data[f] # new[f]

\* C31: a notification whose position differs from the stored snapshot in size, entry
\* price, liquidation price or leverage, or that finds no snapshot, appends exactly one
\* position event with the fields of the new snapshot and stores the new snapshot whole
\* with the current time, and issues the two persistence calls; a notification that
\* reproduces the stored snapshot leaves the log, the snapshot, its timestamp and the
\* persistence calls as they were.
C31_NoOpPolicy ==
    [][\A a \in Addrs :
         IsNotified(a) =>
            LET new == Notified(a)'
            IN  IF Differs(a, new)
                THEN /\ Len(hist') = Len(hist) + 1
                     /\ buffer' = Append(buffer, hist'[Len(hist')])
                     /\ hist'[Len(hist')].seq = nextSeq
                     /\ hist'[Len(hist')].type = "position"
                     /\ hist'[Len(hist')].address = a
                     /\ hist'[Len(hist')].at = now
                     /\ \A f \in DOMAIN new : hist'[Len(hist')][f] = new[f]
                     /\ snapshots'[a] = [data |-> new, updatedAt |-> now]
                     /\ \A b \in Addrs \ {a} :
                            /\ Has(snapshots', b) <=> Has(snapshots, b)
                            /\ Has(snapshots, b) => snapshots'[b] = snapshots[b]
                     /\ writes' = writes + 2
                ELSE UNCHANGED <<buffer, nextSeq, hist, snapshots, writes, db>>]_vars
\* a second notification with the position of the first arrived one second later: one
\* event, and the snapshot still carries the time of the first
C31_Witness ==
    /\ Len(WasOf("0xa")) = 2
    /\ WasOf("0xa")[1] = WasOf("0xa")[2]
    /\ WasOf("0xa")[1].leverage = Num(10)
    /\ now = StartNow + TickMs
    /\ Len(hist) = 1
    /\ snapshots["0xa"].updatedAt = StartNow

----------------------------------------------------------------------------
(* SpecPersist: a tracker that is notified of positions and receives a batch of   *)
(* fills while its persistence calls succeed or fail                              *)

\* notifications and batches in SpecPersist
MaxPersistMoves == 2
MaxPersistBatches == 1

\* a buy of 1 from flat and the sell of 1 that closes it
PersistFills ==
    {[coin |-> "BTC", px |-> Num(100), sz |-> Num(1), side |-> "B",
      startPosition |-> Num(0), time |-> StartNow],
     [coin |-> "BTC", px |-> Num(100), sz |-> Num(1), side |-> "A",
      startPosition |-> Num(1), time |-> StartNow]}

PersistNotified ==
    \E addr \in Addrs, raw \in RawPositions, mark \in MarkPrices :
        Moves < MaxPersistMoves /\ OnClearinghouse(addr, raw, mark)
PersistPersisted == \E k \in DOMAIN db, ok \in BOOLEAN : Persisted(k, ok)
PersistBatch ==
    \E addr \in Addrs, fills \in SeqsUpTo(PersistFills, 2) :
        Len(ueRuns) < MaxPersistBatches /\ fills # <<>> /\ UserEvents(addr, fills)
PersistInserted ==
    \E r \in DOMAIN ueRuns, result \in InsertResults : TradeInserted(r, result)

NextPersist == PersistNotified \/ PersistPersisted \/ PersistBatch \/ PersistInserted

SpecPersist == InitSubs /\ [][NextPersist]_vars

----------------------------------------------------------------------------
(* Claims about persistence failures, checked under SpecPersist *)

\* a persistence call of a position event has failed
SomeFailed == \E k \in DOMAIN db : db[k].state = "failed"
\* the step is the failure of a persistence call of a position event
IsFailure == \E k \in DOMAIN db : db[k].state = "pending" /\ db'[k].state = "failed"

\* C38: the position event is appended with its sequence number and the snapshot is
\* stored in the step that issues the persistence calls; the failure of such a call
\* changes neither the log nor the snapshots nor any handler in progress and rejects no
\* promise; a fill whose insert failed still gets its trade event (without identifier)
\* with the next sequence number, and the batch goes on; after a failure, notifications
\* and fills are processed as before.
C38_PersistenceBestEffort ==
    /\ [](\A k \in DOMAIN db : db[k].promise # "rejected")
    /\ [][IsFailure => UNCHANGED <<queueVars, hist, snapshots, ueRuns, tasks, primeInflight>>]_vars
    /\ [][\A a \in Addrs :
            (IsNotified(a) /\ Differs(a, Notified(a)')) =>
                /\ Len(db') = Len(db) + 2
                /\ \A k \in DOMAIN db' \ DOMAIN db : db'[k].state = "pending"
                /\ hist' = Append(hist, hist'[Len(hist')])
                /\ hist'[Len(hist')].seq = nextSeq
                /\ buffer' = Append(buffer, hist'[Len(hist')])
                /\ snapshots'[a].data = Notified(a)']_vars
    /\ [][\A r \in DOMAIN ueRuns :
            ueRuns[r].pc = "insert" =>
                \/ ueRuns'[r] = ueRuns[r]
                \/ /\ hist' = Append(hist, hist'[Len(hist')])
                   /\ hist'[Len(hist')].type = "trade"
                   /\ hist'[Len(hist')].seq = nextSeq
                   /\ buffer' = Append(buffer, hist'[Len(hist')])
                   /\ ueRuns'[r].pc =
                        (IF NextValid(ueRuns[r].fills, ueRuns[r].i + 1) = 0 THEN "done"
                                                                           ELSE "insert")]_vars
\* both persistence calls of a first position event failed, the insert of the first fill
\* of a batch failed, and a second position event and the second fill's event followed
C38_Witness ==
    /\ Len(db) = 4
    /\ db[1].state = "failed" /\ db[2].state = "failed"
    /\ Len(hist) = 4
    /\ hist[1].type = "position" /\ hist[2].type = "trade" /\ hist[2].dbId = Null
    /\ hist[3].type = "position" /\ hist[4].type = "trade" /\ hist[4].dbId # Null
    /\ ueRuns[1].pc = "done"

----------------------------------------------------------------------------
(* SpecBatch: a tracker that receives two batches of fills, the second possibly   *)
(* while the first is being processed                                            *)

\* batches in SpecBatch, and fills per batch
MaxBatchRuns == 2
MaxBatchLen == 2

\* fills of the channel: two valid ones (told apart by their price), one of another
\* coin, and one each with an unusable price, size and start position
BatchFills ==
    {[coin |-> "BTC", px |-> Num(100), sz |-> Num(1), side |-> "B",
      startPosition |-> Num(0), time |-> StartNow],
     [coin |-> "btc", px |-> Num(101), sz |-> Num(1), side |-> "A",
      startPosition |-> Num(1), time |-> StartNow],
     [coin |-> "ETH", px |-> Num(102), sz |-> Num(1), side |-> "B",
      startPosition |-> Num(0), time |-> StartNow],
     [coin |-> "BTC", px |-> NaN, sz |-> Num(1), side |-> "B",
      startPosition |-> Num(0), time |-> StartNow],
     [coin |-> "BTC", px |-> Num(103), sz |-> NaN, side |-> "B",
      startPosition |-> Num(0), time |-> StartNow],
     [coin |-> "BTC", px |-> Num(104), sz |-> Num(1), side |-> "A",
      startPosition |-> NaN, time |-> StartNow]}

\* the batches: every one of at most MaxBatchLen fills, and the ones of the valid buy,
\* an invalid fill and the valid sell
Batches ==
    SeqsUpTo(BatchFills, MaxBatchLen)
    \cup {<<f, x, g>> : f \in {h \in BatchFills : Valid(h) /\ h.side = "B"},
                        x \in {h \in BatchFills : ~Valid(h)},
                        g \in {h \in BatchFills : Valid(h) /\ h.side = "A"}}

BatchReceived ==
    \E addr \in Addrs, fills \in Batches :
        Len(ueRuns) < MaxBatchRuns /\ UserEvents(addr, fills)
BatchInserted ==
    \E r \in DOMAIN ueRuns, result \in InsertResults : TradeInserted(r, result)

NextBatch == BatchReceived \/ BatchInserted

SpecBatch == InitSubs /\ [][NextBatch]_vars

----------------------------------------------------------------------------
(* Claims about batches of fills, checked under SpecBatch *)

\* the fill is not for BTC, or its price, size or start position is not finite
Skippable(f) ==
    \/ f.coin \notin {"BTC", "btc"}
    \/ f.px = NaN \/ f.sz = NaN \/ f.startPosition = NaN
\* the other fills of a batch, in batch order
Kept(fills) == SelectSeq(fills, LAMBDA f : ~Skippable(f))
\* the events an invocation has appended, in the order of their sequence numbers
EventsOf(run) == [k \in DOMAIN run.pushed |-> hist[run.pushed[k]]]
\* the step is the first one of an invocation of onUserEvents
Received(r) == r \in DOMAIN ueRuns' /\ r \notin DOMAIN ueRuns
\* insertTradeIfNew failed
Failed(result) == result = [id |-> Null, inserted |-> FALSE]

\* C32: for one address the trade events are appended in the order in which their fills
\* were received: every event of an earlier batch of the address precedes every event of
\* a later one, and a later batch appends nothing while an earlier one is not finished.
C32_FillOrder ==
    \A r1, r2 \in DOMAIN ueRuns :
        (r1 < r2 /\ ueRuns[r1].addr = ueRuns[r2].addr /\ ueRuns[r2].pushed # <<>>) =>
            /\ ueRuns[r1].pc = "done"
            /\ \A k1 \in DOMAIN ueRuns[r1].pushed, k2 \in DOMAIN ueRuns[r2].pushed :
                    ueRuns[r1].pushed[k1] < ueRuns[r2].pushed[k2]

NextKept(fills, i) ==
    LET later == {j \in i..Len(fills) : ~Skippable(fills[j])}
    IN  IF later = {} THEN 0 ELSE CHOOSE j \in later : \A k \in later : j <= k

----------------------------------------------------------------------------
(* SpecFillPrime: a tracker that receives batches of fills one after the other    *)
(* while its pulls complete and time passes                                      *)

\* batches in SpecFillPrime
MaxPrimeBatches == 2

\* the batches: at most two fills, each the valid buy or the fill of another coin
PrimeBatches == SeqsUpTo({f \in BatchFills : f.px \in {Num(100), Num(102)}}, 2)

FillPrimeBatch ==
    \E addr \in Addrs, fills \in PrimeBatches :
        /\ Len(ueRuns) < MaxPrimeBatches
        /\ \A r \in DOMAIN ueRuns : ueRuns[r].pc = "done"
        /\ UserEvents(addr, fills)
FillPrimeInserted ==
    \E r \in DOMAIN ueRuns, result \in InsertResults : TradeInserted(r, result)
FillPrimePullSucceeds ==
    \E t \in DOMAIN tasks, raw \in LongPositions, mark \in MarkPrices : PullSucceeds(t, raw, mark)
FillPrimePullFails == \E t \in DOMAIN tasks : PullFails(t)
FillPrimeTick == now < StartNow + MaxTicks * TickMs /\ Tick

NextFillPrime ==
    \/ FillPrimeBatch
    \/ FillPrimeInserted
    \/ FillPrimePullSucceeds
    \/ FillPrimePullFails
    \/ FillPrimeTick

SpecFillPrime == InitSubs /\ [][NextFillPrime]_vars

----------------------------------------------------------------------------
(* Claims about the priming after a batch, checked under SpecFillPrime *)

\* the step ends invocation r: it was received with nothing to process, or it processes
\* its last fill
Ends(r) ==
    \/ Received(r) /\ Kept(ueRuns'[r].fills) = <<>>
    \/ r \in DOMAIN ueRuns /\ Processes(r) /\ NextKept(ueRuns[r].fills, ueRuns[r].i + 1) = 0
\* a pull of the address is in flight, or its last attempt ended less than 2 seconds ago
NoPullDue(a) ==
    \/ Has(primeInflight, a)
    \/ Has(lastPrimeAt, a) /\ now - lastPrimeAt[a] < 2000

----------------------------------------------------------------------------
(* Claims about snapshots of removed addresses, checked under SpecSubs *)

\* a refresh has removed the address, and it is neither listed nor subscribed now
Gone(a) ==
    /\ a \notin Canonical
    /\ ~Has(subs, a)
    /\ \E i \in DOMAIN refreshes : a \in refreshes[i].removed

\* C33: once a refresh has removed an address, and while the address stays untracked,
\* there is no snapshot for it (getAllSnapshots lists the stored snapshots) and no
\* position event is appended for it, also when a pull for the address was in flight
\* during the removal and completes afterwards.
C33_NoSnapshotAfterRemoval ==
    /\ [](\A a \in Addrs : Gone(a) => ~Has(snapshots, a))
    /\ [][\A a \in Addrs :
            (Gone(a) /\ Gone(a)' /\ Len(hist') > Len(hist)) =>
                hist'[Len(hist')].address # a]_vars

----------------------------------------------------------------------------
(* SpecOverlap: a tracker whose refresh() is invoked while another invocation is  *)
(* running (start() and the refresh of POST /api/addresses); every upstream call  *)
(* succeeds                                                                       *)

\* invocations of refresh() in SpecOverlap
MaxOverlap == 2

OverlapListChange == \E to \in SUBSET RawAddrs : stopRun.pc = "idle" /\ ListChange(to)
OverlapRefresh == Len(refreshes) < MaxOverlap /\ RefreshStart
OverlapListed == \E i \in DOMAIN refreshes : RefreshListed(i)
OverlapRemoveStep == \E i \in DOMAIN refreshes : RefreshRemoveStep(i, "ok")
OverlapChStep == \E i \in DOMAIN refreshes : SubscribeChStep(i, TRUE)
OverlapUeStep == \E i \in DOMAIN refreshes : SubscribeUeStep(i, TRUE)

NextOverlap ==
    \/ OverlapListChange
    \/ OverlapRefresh
    \/ OverlapListed
    \/ OverlapRemoveStep
    \/ OverlapChStep
    \/ OverlapUeStep

SpecOverlap == InitSubs /\ [][NextOverlap]_vars

----------------------------------------------------------------------------
(* Claims about overlapping refreshes, checked under SpecOverlap *)

\* the live subscriptions or transports of a kind for an address
Live(kind, a) ==
    {h \in DOMAIN handles :
        handles[h].kind = kind /\ handles[h].addr = a /\ handles[h].state = "live"}
\* the handles an invocation of refresh has in hand: those of the entry it is removing,
\* those of the entry it is building
InHand(r) ==
    IF Running(r) THEN HandlesOf(r.s) \cup HandlesOf(r.new) ELSE {}
\* the handle is in the entry of its address
Recorded(h) ==
    Has(subs, handles[h].addr) /\ h \in HandlesOf(subs[handles[h].addr])

\* C34: in every state an address has at most one live position subscription, at most
\* one live fill subscription and at most one live fill transport, and every live one is
\* in the entry of its address or in the hands of the refresh that is creating or
\* removing it.
C34_OneSubscription ==
    \A a \in Addrs :
        /\ \A kind \in {"ch", "ue", "ueTransport"} : Cardinality(Live(kind, a)) <= 1
        /\ \A kind \in {"ch", "ue", "ueTransport"} :
                \A h \in Live(kind, a) :
                    Recorded(h) \/ \E i \in DOMAIN refreshes : h \in InHand(refreshes[i])

----------------------------------------------------------------------------
(* SpecStream: the distributor while the log of 5000 events overflows *)

\* connections accepted in SpecStream
MaxStreamClients == 1
\* events a burst of upstream activity appends between two ticks (one more than the
\* capacity of the server's queue)
StreamBurst == 5001
\* events appended in SpecStream
MaxStreamSeq == 5003

\* the messages of a consumer in SpecStream: text that is not JSON, and a catch-up
\* request from a sequence the Log has not reached
StreamMessages == {Unparsable, [since |-> Num(6000)]}

StreamConnect == Len(wsObs) < MaxStreamClients /\ Connect
StreamMessage == \E id \in ClientIds, msg \in StreamMessages : OnMessage(id, msg)
StreamTick == \E f \in 0..Len(clients) : RunBroadcast(f)
StreamProduce ==
    \E evt \in TestEvents, k \in {1, StreamBurst} :
        /\ k = 1 => (latestSeq(nextSeq) < MaxWsSeq \/ latestSeq(nextSeq) >= StreamBurst)
        /\ latestSeq(nextSeq) + k <= MaxStreamSeq
        /\ Produce(evt, k)

NextStream == StreamConnect \/ StreamMessage \/ StreamTick \/ StreamProduce

SpecStream == InitWs /\ [][NextStream]_vars

\* the sequences first..last
SeqRange(first, last) == [i \in 1..(last - first + 1) |-> first + i - 1]
\* the sequences of the events of a frame, in the order of the frame
SeqsOf(events) == [i \in DOMAIN events |-> events[i].seq]
\* the event of that sequence is retained
Retained(buf, n) == \E i \in DOMAIN buf : buf[i].seq = n
\* the consumer sent no catch-up request so far
SteadyOnly(id) == ~wsObs[id].asked
\* the cursor of a connected consumer
CursorOf(cs, id) == (CHOOSE c \in {cs[i] : i \in DOMAIN cs} : c.id = id).lastSeq

\* C39: for each consumer that sent no catch-up request, on a Log that is not reset, the
\* events of successive events frames have strictly increasing sequences: each frame is
\* a run of consecutive sequences above everything sent before, a sequence skipped
\* between two frames (or before the first) is one the Log no longer retained at that
\* tick, the cursor is the last sequence sent, it never decreases and never exceeds
\* latestSeq().
C39_MonotonicStream ==
    /\ [](\A id \in DOMAIN wsObs :
            SteadyOnly(id) =>
                LET got == wsObs[id].got
                IN  /\ \A j \in DOMAIN got :
                            /\ got[j][1] <= got[j][2]
                            /\ j > 1 => got[j][1] > got[j - 1][2]
                    /\ id \in ClientIds =>
                            /\ CursorOf(clients, id) =
                                    (IF got = <<>> THEN 0 ELSE got[Len(got)][2])
                            /\ CursorOf(clients, id) <= latestSeq(nextSeq))
    /\ [][\A id \in ClientIds :
            (SteadyOnly(id) /\ id \in ClientIdsAfter /\ ~wsObs'[id].asked) =>
                LET before == CursorOf(clients, id)
                    after == CursorOf(clients', id)
                IN  /\ after >= before
                    /\ (IsTick /\ id \in DOMAIN wsCall'.frames) =>
                            LET events == wsCall'.frames[id].events
                            IN  /\ events # <<>>
                                /\ events[1].seq > before
                                /\ SeqsOf(events) = SeqRange(events[1].seq, after)
                                /\ \A n \in (before + 1)..(events[1].seq - 1) :
                                        ~Retained(buffer, n)
                    /\ after # before => (IsTick /\ id \in DOMAIN wsCall'.frames)]_vars
\* a consumer that never asked for a catch-up got event 1, then, after 5001 more events
\* were appended, the oldest retained event 3 and the 199 after it, then the next 200
C39_Witness ==
    \E id \in ClientIds :
        /\ SteadyOnly(id)
        /\ wsCall.op = "tick"
        /\ id \in DOMAIN wsCall.frames
        /\ wsObs[id].got = <<(<<1, 1>>), (<<3, 202>>), (<<203, 402>>)>>
        /\ Len(wsCall.frames[id].events) = BroadcastLimit
        /\ CursorOf(clients, id) = 402

----------------------------------------------------------------------------
(* SpecRace: notifications of the exchange while priming pulls are in flight *)

\* calls of primeFromHttp and notifications in SpecRace
MaxRacePulls == 2
MaxRaceMoves == 2

\* the exchange answers the pull of task t with the position it holds at that moment;
\* the response is on its way to performPrime
PullAnswered(t) ==
    /\ tasks[t].pull = "pending"
    /\ ~Has(upstream.answers, t)
    /\ upstream' = [upstream EXCEPT !.answers = Put(@, t, Len(WasOf(tasks[t].addr)))]
    /\ UNCHANGED <<queueVars, queueObs, hist, trackerVars, subVars, wsVars, wipe, ueRuns,
                   merge, rate, sweeps, db>>

RacePrime ==
    \E addr \in {"0xa"} : primeCall.n < MaxRacePulls /\ PrimeFromHttp(addr, TRUE, 0)
RaceAnswered == \E t \in DOMAIN tasks : PullAnswered(t)
RaceNotified ==
    \E addr \in {"0xa"}, raw \in PushPositions, mark \in MarkPrices :
        Len(WasOf(addr)) < MaxRaceMoves /\ OnClearinghouse(addr, raw, mark)
RacePulled ==
    \E t \in DOMAIN tasks, mark \in MarkPrices :
        /\ Has(upstream.answers, t)
        /\ PullSucceeds(t, PositionAt(tasks[t].addr, upstream.answers[t]), mark)
RacePullFails == \E t \in DOMAIN tasks : PullFails(t)
RaceTick == now < StartNow + TickMs /\ Tick

NextRace ==
    \/ RacePrime
    \/ RaceAnswered
    \/ RaceNotified
    \/ RacePulled
    \/ RacePullFails
    \/ RaceTick

SpecRace == InitSubs /\ [][NextRace]_vars

\* the response of task t is older than the last notification of its address
Outdated(t) ==
    /\ Has(upstream.answers, t)
    /\ Has(upstream.notified, tasks[t].addr)
    /\ upstream.answers[t] < upstream.notified[tasks[t].addr]
\* performPrime of task t completes in the step
Pulled(t) == tasks[t].pull = "pending" /\ tasks'[t].pull = "ok"
\* the last position event appended for the address
LastPositionEvent(h, a) ==
    LET at == {i \in DOMAIN h : h[i].type = "position" /\ h[i].address = a}
    IN  h[CHOOSE i \in at : \A j \in at : j <= i]

\* C40: when a priming pull completes with a response older than the last notification
\* of its address, the stored snapshot and the last position event of the address are
\* still those of the notified position.
C40_PushNotOverwritten ==
    [][\A t \in DOMAIN tasks :
         (Pulled(t) /\ Outdated(t)) =>
            LET a == tasks[t].addr
                pushed == Notified(a)
            IN  /\ snapshots'[a].data = pushed
                /\ \A f \in DOMAIN pushed : LastPositionEvent(hist', a)[f] = pushed[f]]_vars

====
